---- MODULE Spec2Model ----
(***************************************************************************)
(* Webhook payload reconciler of geo-pin-stream (processTrackingWebhook)   *)
(* and the localStorage collections it maintains.                          *)
(*                                                                         *)
(* JavaScript values are tagged records.  A string is a sequence of        *)
(* one-character strings, so that trim, toLowerCase and slugify are        *)
(* computed character by character.  A finite number is a decimal: the     *)
(* digits of its magnitude and the power of ten of the last digit, so      *)
(* that every decimal literal keeps all its digits (Num(12970) is 12.97).  *)
(* An object is the sequence of its own <<key, value>> entries in the      *)
(* order Object.entries yields them: array-index keys in ascending order,  *)
(* then the other keys in insertion order.                                 *)
(***************************************************************************)
EXTENDS Integers, Sequences, FiniteSets, TLC

\* ------------------------------------------------------------------------
\* JavaScript values
\* ------------------------------------------------------------------------
Undefined == [t |-> "undefined"]
Null == [t |-> "null"]
NaN == [t |-> "NaN"]
PosInf == [t |-> "Infinity"]
NegInf == [t |-> "-Infinity"]
Bool(b) == [t |-> "boolean", b |-> b]
Str(s) == [t |-> "string", s |-> s]
Obj(entries) == [t |-> "object", e |-> entries]
Arr(items) == [t |-> "array", a |-> items]
\* what a name inherited from a prototype holds: a built-in function, or the
\* prototype itself under __proto__; it is not nullish and has no push
Inherited == [t |-> "function"]
\* in place of a value: the TypeError that an expression throws
TypeError == [t |-> "TypeError"]
IsError(x) == "t" \in DOMAIN x /\ x.t = "TypeError"

Nullish(v) == v.t \in {"undefined", "null"}

\* a ?? b
Coalesce(a, b) == IF Nullish(a) THEN b ELSE a

\* ------------------------------------------------------------------------
\* Numbers
\* ------------------------------------------------------------------------
\* The finite number (-1)^neg * m * 10^x, where m is read as a decimal
\* numeral.  m has no leading and no trailing zero; zero is the empty m with
\* x = 0 and neg = FALSE (-0 prints, stores and compares as 0).  A number
\* the code holds is a double; it is written with the digits that
\* Number.prototype.toString gives it, the shortest decimal that reads back
\* as the same double (Canonical).
Dec(neg, m, x) == [t |-> "number", neg |-> neg, m |-> m, x |-> x]
Zero == Dec(FALSE, <<>>, 0)

\* the number of zeros at the start and at the end of the digits ds
LeadingZeros(ds) ==
  IF ds = <<>> \/ ds[1] # 0 THEN 0
  ELSE Cardinality({i \in 1..Len(ds) : \A j \in 1..i : ds[j] = 0})
TrailingZeros(ds) ==
  IF ds = <<>> \/ ds[Len(ds)] # 0 THEN 0
  ELSE Cardinality({i \in 1..Len(ds) : \A j \in i..Len(ds) : ds[j] = 0})

StripLeadingZeros(ds) == SubSeq(ds, LeadingZeros(ds) + 1, Len(ds))

\* the number of the digits ds, which have no leading zero and end in t zeros
StripTrailingZeros(neg, ds, x, t) ==
  IF t = Len(ds) THEN Zero ELSE Dec(neg, SubSeq(ds, 1, Len(ds) - t), x + t)

\* the number (-1)^neg * ds * 10^x of any digits ds
Stripped(neg, ds, x) == StripTrailingZeros(neg, ds, x, TrailingZeros(ds))
Normal(neg, ds, x) == Stripped(neg, StripLeadingZeros(ds), x)

RECURSIVE NatDigits(_)
NatDigits(n) == IF n = 0 THEN <<>> ELSE NatDigits(n \div 10) \o <<n % 10>>

\* the number n / 10^d of an integer n
Scaled(n, d) == Normal(n < 0, NatDigits(IF n < 0 THEN 0 - n ELSE n), 0 - d)
\* n thousandths, and the integer i
Num(n) == Scaled(n, 3)
Whole(i) == Scaled(i, 0)

\* the number of digits before the decimal point (negative or zero below 0.1)
Top(v) == Len(v.m) + v.x

DigitAt(m, i) == IF i <= Len(m) THEN m[i] ELSE 0

\* |a| < |b|
MagLess(a, b) ==
  IF a.m = <<>> THEN b.m # <<>>
  ELSE IF b.m = <<>> THEN FALSE
  ELSE IF Top(a) # Top(b) THEN Top(a) < Top(b)
  ELSE \E i \in 1..(Len(a.m) + Len(b.m)) :
         /\ DigitAt(a.m, i) < DigitAt(b.m, i)
         /\ \A j \in 1..(i - 1) : DigitAt(a.m, j) = DigitAt(b.m, j)

\* a < b and a <= b on finite numbers
Less(a, b) ==
  IF a.neg # b.neg THEN a.neg
  ELSE IF a.neg THEN MagLess(b, a) ELSE MagLess(a, b)
LessEq(a, b) == a = b \/ Less(a, b)

\* ------------------------------------------------------------------------
\* Integers of any size, as digits without leading zeros (zero is <<>>).
\* Sums, differences, doubles and halves are computed for all digits at once
\* and repetitions split in halves, so that the evaluation never nests
\* deeply, whatever the length of the number.
\* ------------------------------------------------------------------------
\* the first position where a and b, of one length and not equal, differ
FirstDifference(a, b) ==
  CHOOSE i \in 1..Len(a) : a[i] # b[i] /\ \A j \in 1..(i - 1) : a[j] = b[j]

\* a < b
DigitsLess(a, b) ==
  IF Len(a) # Len(b) THEN Len(a) < Len(b)
  ELSE a # b /\ a[FirstDifference(a, b)] < b[FirstDifference(a, b)]

\* the digit of ds that stands i places before its last one
Place(ds, i) == IF i < Len(ds) THEN ds[Len(ds) - i] ELSE 0

\* a and b digit by digit, b added (sign = 1) or subtracted (sign = -1)
Columns(a, b, sign, n) ==
  SubSeq([i \in 1..n |-> Place(a, n - i) + sign * Place(b, n - i)], 1, n)

\* the carry into the column i of the sums t (1, 0, or -1 for a borrow): that
\* out of the first column after i that does not pass a carry on (a sum other
\* than 9, a difference other than 0)
FirstDeciding(t, i, pass) ==
  CHOOSE j \in (i + 1)..Len(t) : t[j] # pass /\ \A k \in (i + 1)..(j - 1) : t[k] = pass
CarryInto(t, i, pass) ==
  IF \A j \in (i + 1)..Len(t) : t[j] = pass THEN 0
  ELSE IF t[FirstDeciding(t, i, pass)] > 9 THEN 1
  ELSE IF t[FirstDeciding(t, i, pass)] < 0 THEN -1
  ELSE 0

\* the digits of the columns t with their carries, the carry out in front
Carried(t, pass) ==
  SubSeq([i \in 1..(Len(t) + 1) |->
            IF i = 1 THEN CarryInto(t, 0, pass)
            ELSE (t[i - 1] + CarryInto(t, i - 1, pass)) % 10], 1, Len(t) + 1)

\* a + b, and a - b for a >= b
Longer(a, b) == IF Len(a) < Len(b) THEN Len(b) ELSE Len(a)
Add(a, b) == StripLeadingZeros(Carried(Columns(a, b, 1, Longer(a, b)), 9))
Sub(a, b) == StripLeadingZeros(Tail(Carried(Columns(a, b, -1, Len(a)), 0)))

\* the digits of ds + 1
Incr(ds) == Add(ds, <<1>>)

\* ds * 2: a digit from 5 on carries one into the digit before it
Double(ds) ==
  SubSeq([i \in 1..(Len(ds) + 1) |->
            (IF i = 1 THEN 0 ELSE (2 * ds[i - 1]) % 10)
            + (IF i <= Len(ds) /\ ds[i] >= 5 THEN 1 ELSE 0)],
         IF ds # <<>> /\ ds[1] >= 5 THEN 1 ELSE 2, Len(ds) + 1)

\* ds div 2: an odd digit carries ten into the digit after it
Halve(ds) ==
  SubSeq([i \in 1..Len(ds) |->
            (ds[i] + (IF i > 1 /\ ds[i - 1] % 2 = 1 THEN 10 ELSE 0)) \div 2],
         IF ds # <<>> /\ ds[1] = 1 THEN 2 ELSE 1, Len(ds))
Odd(ds) == ds # <<>> /\ ds[Len(ds)] % 2 = 1

\* ds * 2^n
RECURSIVE Times2(_, _)
Times2(ds, n) ==
  IF n = 0 \/ ds = <<>> THEN ds
  ELSE IF n = 1 THEN Double(ds)
  ELSE Times2(Times2(ds, n \div 2), n - n \div 2)

\* ds * 10^n
Times10(ds, n) == IF ds = <<>> THEN ds ELSE ds \o [i \in 1..n |-> 0]

\* D, 2 D, 4 D and 8 D
Multiples(D) == <<D, Double(D), Times2(D, 2), Times2(D, 3)>>

\* the digit d = rem div D and the remainder r, for rem < 16 * D: the
\* multiples Ms of D are taken off from the largest on
Reduce(s, M, bit) ==
  IF DigitsLess(s.r, M) THEN s ELSE [r |-> Sub(s.r, M), d |-> s.d + bit]
DigitOf(rem, Ms) ==
  Reduce(Reduce(Reduce(Reduce([r |-> rem, d |-> 0], Ms[4], 8), Ms[3], 4), Ms[2], 2),
         Ms[1], 1)

\* long division: the remainder so far, the digits of the dividend still to
\* come and the digits of the quotient; one digit more, and n digits more
Dividing(rem, rest, q) == [rem |-> rem, rest |-> rest, q |-> q]
DivideNext(st, s) == Dividing(st.r, Tail(s.rest), Append(s.q, st.d))
DivideStep(s, Ms) ==
  DivideNext(DigitOf(StripLeadingZeros(Append(s.rem, Head(s.rest))), Ms), s)
RECURSIVE DivideLoop(_, _, _)
DivideLoop(s, Ms, n) ==
  IF n = 0 \/ s.rest = <<>> THEN s
  ELSE IF n = 1 THEN DivideStep(s, Ms)
  ELSE DivideLoop(DivideLoop(s, Ms, n \div 2), Ms, n - n \div 2)

\* N div D and N mod D
Shorter(n, d) == IF n < d THEN n ELSE d
Divided(s) == [q |-> StripLeadingZeros(s.q), r |-> s.rem]
DivideFrom(N, D, h) ==
  Divided(DivideLoop(Dividing(SubSeq(N, 1, h), SubSeq(N, h + 1, Len(N)), <<>>),
                     Multiples(D), Len(N) - h))
Divide(N, D) == DivideFrom(N, D, Shorter(Len(N), Len(D) - 1))

\* ------------------------------------------------------------------------
\* Doubles
\* ------------------------------------------------------------------------
\* The finite double q * 2^e: 2^52 <= q < 2^53 and -1074 <= e <= 971, or
\* 0 < q < 2^52 and e = -1074 (subnormal).
TwoTo52 == <<4,5,0,3,5,9,9,6,2,7,3,7,0,4,9,6>>
TwoTo53 == <<9,0,0,7,1,9,9,2,5,4,7,4,0,9,9,2>>
Finite(q, e) == [c |-> "finite", q |-> q, e |-> e]
Overflow == [c |-> "infinite"]
Underflow == [c |-> "zero"]

\* q * 2^e with the bit rb shifted out last and st, whether a lower bit that
\* was shifted out is set: one more bit shifted out, and as many as leave
\* q < 2^53
Bits(q, e, st) == [q |-> q, e |-> e, rb |-> FALSE, st |-> st]
Shifted(s) == [q |-> Halve(s.q), e |-> s.e + 1, rb |-> Odd(s.q), st |-> s.st \/ s.rb]
RECURSIVE Narrow(_)
Narrow(s) == IF DigitsLess(s.q, TwoTo53) THEN s ELSE Narrow(Shifted(s))
RECURSIVE ShiftBy(_, _)
ShiftBy(s, n) ==
  IF n = 0 THEN s
  ELSE IF s.q = <<>> /\ ~s.rb THEN [s EXCEPT !.e = @ + n]
  ELSE IF n = 1 THEN Shifted(s)
  ELSE ShiftBy(ShiftBy(s, n \div 2), n - n \div 2)

\* the double of q * 2^e: q = 2^53 is 2^52 with the next exponent
Renormal(q, e) ==
  IF q = <<>> THEN Underflow
  ELSE IF q = TwoTo53 THEN (IF e + 1 > 971 THEN Overflow ELSE Finite(TwoTo52, e + 1))
  ELSE IF e > 971 THEN Overflow
  ELSE Finite(q, e)

\* round to nearest, ties to even
RoundEven(s) ==
  Renormal(IF s.rb /\ (s.st \/ Odd(s.q)) THEN Incr(s.q) ELSE s.q, s.e)

\* a lower bound of the binary exponent of a number with top digits before
\* the decimal point: 2^BinaryFloor(top) <= 10^(top - 1)
BinaryFloor(top) == ((top - 1) * 3321928) \div 1000000 - 1

\* the exponent at which the division is done: one bit more than the 53 of q,
\* and not below the one bit under the subnormal exponent
FirstExponent(top) ==
  IF BinaryFloor(top) - 53 < -1075 THEN -1075 ELSE BinaryFloor(top) - 53

\* N / D at the exponent e0, cut to an integer
Quotient(N, D, e0) ==
  IF e0 >= 0 THEN Divide(N, Times2(D, e0)) ELSE Divide(Times2(N, 0 - e0), D)
NearestDouble(qr, e0) == RoundEven(Narrow(Shifted(Bits(qr.q, e0, qr.r # <<>>))))

\* the double nearest to m * 10^x, m without leading or trailing zeros
ToDouble(m, x) ==
  IF Len(m) + x > 309 THEN Overflow
  ELSE IF Len(m) + x < -323 THEN Underflow
  ELSE IF x >= 0
    THEN NearestDouble(Quotient(Times10(m, x), <<1>>, FirstExponent(Len(m) + x)),
                 FirstExponent(Len(m) + x))
  ELSE NearestDouble(Quotient(m, Times10(<<1>>, 0 - x), FirstExponent(Len(m) + x)),
               FirstExponent(Len(m) + x))

\* The double v = q * 2^e as the fraction r / s, with mp / s and mm / s half
\* the distance to the next double above and below, and k the power of ten
\* with v < 10^k (free-format printing of Steele and White, Burger and Dybvig).
Widths(r, s, mp, mm) == [r |-> r, s |-> s, mp |-> mp, mm |-> mm, k |-> 0]
AsFraction(q, e) ==
  IF e >= 0
  THEN IF q # TwoTo52
       THEN Widths(Times2(q, e + 1), <<2>>, Times2(<<1>>, e), Times2(<<1>>, e))
       ELSE Widths(Times2(q, e + 2), <<4>>, Times2(<<1>>, e + 1), Times2(<<1>>, e))
  ELSE IF e = -1074 \/ q # TwoTo52
       THEN Widths(Times2(q, 1), Times2(<<1>>, 1 - e), <<1>>, <<1>>)
       ELSE Widths(Times2(q, 2), Times2(<<1>>, 2 - e), <<2>>, <<1>>)

\* an estimate of the power of ten of q * 2^e
DecimalFloor(q, e) == ((Len(q) - 1) * 1000000 + e * 301029) \div 1000000

ScaleBy(f, est) ==
  IF est >= 0 THEN [f EXCEPT !.s = Times10(@, est), !.k = est]
  ELSE [f EXCEPT !.r = Times10(@, 0 - est), !.mp = Times10(@, 0 - est),
                 !.mm = Times10(@, 0 - est), !.k = est]

\* the upper end of the rounding interval reaches s (it belongs to the
\* interval when q is even)
ReachesHigh(r, mp, s, even) ==
  IF even THEN ~DigitsLess(Add(r, mp), s) ELSE DigitsLess(s, Add(r, mp))
\* ten times the upper end stays below s
StaysLow(f, even) ==
  IF even THEN DigitsLess(Times10(Add(f.r, f.mp), 1), f.s)
  ELSE ~DigitsLess(f.s, Times10(Add(f.r, f.mp), 1))

RECURSIVE FixUp(_, _)
FixUp(f, even) ==
  IF ReachesHigh(f.r, f.mp, f.s, even)
  THEN FixUp([f EXCEPT !.s = Times10(@, 1), !.k = @ + 1], even)
  ELSE f
RECURSIVE FixDown(_, _)
FixDown(f, even) ==
  IF StaysLow(f, even)
  THEN FixDown([f EXCEPT !.r = Times10(@, 1), !.mp = Times10(@, 1),
                         !.mm = Times10(@, 1), !.k = @ - 1], even)
  ELSE f

\* the last digit: d or d + 1, the one inside the rounding interval, the
\* nearer one when both are, the even one when they are as near
LastDigit(st, s, low, high) ==
  IF low /\ ~high THEN st.d
  ELSE IF high /\ ~low THEN st.d + 1
  ELSE IF DigitsLess(Double(st.r), s) THEN st.d
  ELSE IF Double(st.r) = s /\ st.d % 2 = 0 THEN st.d
  ELSE st.d + 1

\* digit generation: the remainder r, the half distances, the digits so far
\* and whether the last one is out; one digit more, and n digits more
Generating(r, mp, mm, acc, done) ==
  [r |-> r, mp |-> mp, mm |-> mm, acc |-> acc, done |-> done]
GenerateNext(st, mp, mm, acc, s, low, high) ==
  IF ~low /\ ~high THEN Generating(st.r, mp, mm, Append(acc, st.d), FALSE)
  ELSE Generating(st.r, mp, mm, Append(acc, LastDigit(st, s, low, high)), TRUE)
GenerateDigit(st, mp, mm, acc, s, even) ==
  GenerateNext(st, mp, mm, acc, s,
               IF even THEN ~DigitsLess(mm, st.r) ELSE DigitsLess(st.r, mm),
               ReachesHigh(st.r, mp, s, even))
GenerateStep(g, Ss, even) ==
  GenerateDigit(DigitOf(Times10(g.r, 1), Ss), Times10(g.mp, 1), Times10(g.mm, 1),
                g.acc, Ss[1], even)
RECURSIVE GenerateLoop(_, _, _, _)
GenerateLoop(g, Ss, even, n) ==
  IF n = 0 \/ g.done THEN g
  ELSE IF n = 1 THEN GenerateStep(g, Ss, even)
  ELSE GenerateLoop(GenerateLoop(g, Ss, even, n \div 2), Ss, even, n - n \div 2)

\* the shortest decimal that the double q * 2^e is the nearest double of; it
\* has 17 digits at most
ShortestOf(k, ds) == Normal(FALSE, ds, k - Len(ds))
ShortestFrom(f, even) ==
  ShortestOf(f.k, GenerateLoop(Generating(f.r, f.mp, f.mm, <<>>, FALSE),
                               Multiples(f.s), even, 17).acc)
Shortest(q, e) ==
  ShortestFrom(FixDown(FixUp(ScaleBy(AsFraction(q, e), DecimalFloor(q, e)), ~Odd(q)),
                       ~Odd(q)), ~Odd(q))

Signed(neg, v) == Dec(neg, v.m, v.x)

\* the number a double is
FromDouble(neg, d) ==
  CASE d.c = "zero" -> Zero
    [] d.c = "infinite" -> [t |-> IF neg THEN "-Infinity" ELSE "Infinity"]
    [] OTHER -> Signed(neg, Shortest(d.q, d.e))

\* the double nearest to the decimal v: v itself when it has at most 15
\* digits and lies in the normal range
Canonical(v) ==
  IF v.m = <<>> THEN v
  ELSE IF Len(v.m) <= 15 /\ -306 <= Top(v) /\ Top(v) <= 308 THEN v
  ELSE FromDouble(v.neg, ToDouble(v.m, v.x))

\* the integer a whole number holds
RECURSIVE DigitsToNat(_)
DigitsToNat(ds) ==
  IF ds = <<>> THEN 0 ELSE DigitsToNat(SubSeq(ds, 1, Len(ds) - 1)) * 10 + ds[Len(ds)]
RECURSIVE Pow10(_)
Pow10(k) == IF k = 0 THEN 1 ELSE 10 * Pow10(k - 1)
IsWhole(v) == v.t = "number" /\ v.x >= 0
IntOf(v) == (IF v.neg THEN -1 ELSE 1) * DigitsToNat(v.m) * Pow10(v.x)

\* ToBoolean: the values for which `if (v)`, `v ? :` and `v || w` take v
Truthy(v) ==
  CASE v.t \in {"undefined", "null", "NaN"} -> FALSE
    [] v.t = "boolean" -> v.b
    [] v.t = "number" -> v.m # <<>>
    [] v.t = "string" -> v.s # <<>>
    [] OTHER -> TRUE

\* a || b
OrElse(a, b) == IF Truthy(a) THEN a ELSE b

\* isNaN on a value that already is a number
isNaN(v) == v.t = "NaN"

\* ------------------------------------------------------------------------
\* Strings
\* ------------------------------------------------------------------------
UpperLetters == <<"A","B","C","D","E","F","G","H","I","J","K","L","M",
                  "N","O","P","Q","R","S","T","U","V","W","X","Y","Z">>
LowerLetters == <<"a","b","c","d","e","f","g","h","i","j","k","l","m",
                  "n","o","p","q","r","s","t","u","v","w","x","y","z">>
Digits == <<"0","1","2","3","4","5","6","7","8","9">>

Range(f) == {f[i] : i \in DOMAIN f}

\* the capital letters of Latin-1 (U+00C0 to U+00DE) and their small letters
UpperLatin1 == <<"À","Á","Â","Ã","Ä","Å","Æ","Ç","È","É","Ê","Ë","Ì",
                 "Í","Î","Ï","Ð","Ñ","Ò","Ó","Ô","Õ","Ö","Ø","Ù","Ú",
                 "Û","Ü","Ý","Þ">>
LowerLatin1 == <<"à","á","â","ã","ä","å","æ","ç","è","é","ê","ë","ì",
                 "í","î","ï","ð","ñ","ò","ó","ô","õ","ö","ø","ù","ú",
                 "û","ü","ý","þ">>

\* the other letters that a string of this module holds and toLowerCase
\* changes, each with the letter it gives (Unicode 17).  A character that
\* cannot be written in a string of this module is named by its code point.
UpperOther ==
  <<"Ɓ","Ƃ","Ƅ","Ɔ","Ƈ","Ɖ","Ɗ","Ƌ","Ǝ","Ə","Ɛ","Ƒ","Ɠ","Ɣ","Ɩ","Ɨ","Ƙ","Ɯ","Ɲ","Ɵ","Ơ","Ƣ","Ƥ",
    "Ʀ","Ƨ","Ʃ","Ƭ","Ʈ","Ư","Ʊ","Ʋ","Ƴ","Ƶ","Ʒ","Ƹ","Ƽ","Ǆ","ǅ","Ǉ","ǈ","Ǌ","ǋ","Ǎ","Ǐ","Ǒ","Ǔ",
    "Ǖ","Ǘ","Ǚ","Ǜ","Ǟ","Ǡ","Ǣ","Ǥ","Ǧ","Ǩ","Ǫ","Ǭ","Ǯ","Ǳ","ǲ","Ǵ","Ƕ","Ƿ","Ǹ","Ǻ","Ǽ","Ǿ","Ά",
    "Έ","Ή","Ί","Ό","Ύ","Ώ","Α","Β","Γ","Δ","Ε","Ζ","Η","Θ","Ι","Κ","Λ","Μ","Ν","Ξ","Ο","Π","Ρ",
    "Σ","Τ","Υ","Φ","Χ","Ψ","Ω","Ϊ","Ϋ","Ϗ","Ϙ","Ϛ","Ϝ","Ϟ","Ϡ","Ϣ","Ϥ","Ϧ","Ϩ","Ϫ","Ϭ","Ϯ","ϴ",
    "Ϸ","Ϲ","Ϻ","Ͻ","Ͼ","Ͽ","Ҁ","Ҋ","Ҍ","Ҏ","Ґ","Ғ","Ҕ","Җ","Ҙ","Қ","Ҝ","Ҟ","Ҡ","Ң","Ҥ","Ҧ","Ҩ",
    "Ҫ","Ҭ","Ү","Ұ","Ҳ","Ҵ","Ҷ","Ҹ","Һ","Ҽ","Ҿ","Ӏ","Ӂ","Ӄ","Ӆ","Ӈ","Ӊ","Ӌ","Ӎ","Ӑ","Ӓ","Ӕ","Ӗ",
    "Ә","Ӛ","Ӝ","Ӟ","Ӡ","Ӣ","Ӥ","Ӧ","Ө","Ӫ","Ӭ","Ӯ","Ӱ","Ӳ","Ӵ","Ӷ","Ӹ","Ӻ","Ӽ","Ӿ","Ⴀ","Ⴁ","Ⴂ",
    "Ⴃ","Ⴄ","Ⴅ","Ⴆ","Ⴇ","Ⴈ","Ⴉ","Ⴊ","Ⴋ","Ⴌ","Ⴍ","Ⴎ","Ⴏ","Ⴐ","Ⴑ","Ⴒ","Ⴓ","Ⴔ","Ⴕ","Ⴖ","Ⴗ","Ⴘ","Ⴙ",
    "Ⴚ","Ⴛ","Ⴜ","Ⴝ","Ⴞ","Ⴟ","Ⴠ","Ⴡ","Ⴢ","Ⴣ","Ⴤ","Ⴥ","Ⴧ","Ⴭ","Ꭰ","Ꭱ","Ꭲ","Ꭳ","Ꭴ","Ꭵ","Ꭶ","Ꭷ","Ꭸ",
    "Ꭹ","Ꭺ","Ꭻ","Ꭼ","Ꭽ","Ꭾ","Ꭿ","Ꮀ","Ꮁ","Ꮂ","Ꮃ","Ꮄ","Ꮅ","Ꮆ","Ꮇ","Ꮈ","Ꮉ","Ꮊ","Ꮋ","Ꮌ","Ꮍ","Ꮎ","Ꮏ",
    "Ꮐ","Ꮑ","Ꮒ","Ꮓ","Ꮔ","Ꮕ","Ꮖ","Ꮗ","Ꮘ","Ꮙ","Ꮚ","Ꮛ","Ꮜ","Ꮝ","Ꮞ","Ꮟ","Ꮠ","Ꮡ","Ꮢ","Ꮣ","Ꮤ","Ꮥ","Ꮦ",
    "Ꮧ","Ꮨ","Ꮩ","Ꮪ","Ꮫ","Ꮬ","Ꮭ","Ꮮ","Ꮯ","Ꮰ","Ꮱ","Ꮲ","Ꮳ","Ꮴ","Ꮵ","Ꮶ","Ꮷ","Ꮸ","Ꮹ","Ꮺ","Ꮻ","Ꮼ","Ꮽ",
    "Ꮾ","Ꮿ","Ᏸ","Ᏹ","Ᏺ","Ᏻ","Ᏼ","Ᏽ","Ᲊ","Ა","Ბ","Გ","Დ","Ე","Ვ","Ზ","Თ","Ი","Კ","Ლ","Მ","Ნ","Ო",
    "Პ","Ჟ","Რ","Ს","Ტ","Უ","Ფ","Ქ","Ღ","Ყ","Შ","Ჩ","Ც","Ძ","Წ","Ჭ","Ხ","Ჯ","Ჰ","Ჱ","Ჲ","Ჳ","Ჴ",
    "Ჵ","Ჶ","Ჷ","Ჸ","Ჹ","Ჺ","Ჽ","Ჾ","Ჿ","Ẁ","Ẃ","Ẅ","Ẇ","Ẉ","Ẋ","Ẍ","Ẏ","Ẑ","Ẓ","Ẕ","ẞ","Ạ","Ả",
    "Ấ","Ầ","Ẩ","Ẫ","Ậ","Ắ","Ằ","Ẳ","Ẵ","Ặ","Ẹ","Ẻ","Ẽ","Ế","Ề","Ể","Ễ","Ệ","Ỉ","Ị","Ọ","Ỏ","Ố",
    "Ồ","Ổ","Ỗ","Ộ","Ớ","Ờ","Ở","Ỡ","Ợ","Ụ","Ủ","Ứ","Ừ","Ử","Ữ","Ự","Ỳ","Ỵ","Ỷ","Ỹ","Ỻ","Ỽ","Ỿ",
    "ᾈ","ᾉ","ᾊ","ᾋ","ᾌ","ᾍ","ᾎ","ᾏ","ᾘ","ᾙ","ᾚ","ᾛ","ᾜ","ᾝ","ᾞ","ᾟ","ᾨ","ᾩ","ᾪ","ᾫ","ᾬ","ᾭ","ᾮ",
    "ᾯ","Ᾰ","Ᾱ","Ὰ","Ά","ᾼ","Ὲ","Έ","Ὴ","Ή","ῌ","Ῐ","Ῑ","Ὶ","Ί","Ῠ","Ῡ","Ὺ","Ύ","Ῥ","Ὸ","Ό","Ὼ",
    "Ώ","ῼ","Ↄ","Ⓐ","Ⓑ","Ⓒ","Ⓓ","Ⓔ","Ⓕ","Ⓖ","Ⓗ","Ⓘ","Ⓙ","Ⓚ","Ⓛ","Ⓜ","Ⓝ","Ⓞ","Ⓟ","Ⓠ","Ⓡ","Ⓢ","Ⓣ",
    "Ⓤ","Ⓥ","Ⓦ","Ⓧ","Ⓨ","Ⓩ","Ⲁ","Ⲃ","Ⲅ","Ⲇ","Ⲉ","Ⲋ","Ⲍ","Ⲏ","Ⲑ","Ⲓ","Ⲕ","Ⲗ","Ⲙ","Ⲛ","Ⲝ","Ⲟ","Ⲡ",
    "Ⲣ","Ⲥ","Ⲧ","Ⲩ","Ⲫ","Ⲭ","Ⲯ","Ⲱ","Ⲳ","Ⲵ","Ⲷ","Ⲹ","Ⲻ","Ⲽ","Ⲿ","Ⳁ","Ⳃ","Ⳅ","Ⳇ","Ⳉ","Ⳋ","Ⳍ","Ⳏ",
    "Ⳑ","Ⳓ","Ⳕ","Ⳗ","Ⳙ","Ⳛ","Ⳝ","Ⳟ","Ⳡ","Ⳣ","Ⳬ","Ⳮ","Ⳳ","Ꚁ","Ꚃ","Ꚅ","Ꚇ","Ꚉ","Ꚋ","Ꚍ","Ꚏ","Ꚑ","Ꚓ",
    "Ꚕ","Ꚗ","Ꚙ","Ꚛ","Ꞁ","Ꞃ","Ꞅ","Ꞇ","Ꞌ","Ɥ","Ꞑ","Ꞓ","Ꞗ","Ꞙ","Ꞛ","Ꞝ","Ꞟ","Ꞡ","Ꞣ","Ꞥ","Ꞧ","Ꞩ","Ɦ",
    "Ɜ","Ɡ","Ɬ","Ɪ","Ʞ","Ʇ","Ʝ","Ꭓ","Ꞵ","Ꞷ","Ꞹ","Ꞻ","Ꞽ","Ꞿ","Ꟁ","Ꟃ","Ꞔ","Ʂ","Ᶎ","Ꟈ","Ꟊ","Ɤ","Ꟍ",
    "꟎","Ꟑ","꟒","꟔","Ꟗ","Ꟙ","Ꟛ","Ƛ","Ꟶ">>
LowerOther ==
  <<"U+0253","ƃ","ƅ","U+0254","ƈ","U+0256","U+0257","ƌ","ǝ","U+0259","U+025B","ƒ","U+0260",
    "U+0263","U+0269","U+0268","ƙ","U+026F","U+0272","U+0275","ơ","ƣ","ƥ","ʀ","ƨ","ʃ","ƭ","ʈ",
    "ư","ʊ","ʋ","ƴ","ƶ","ʒ","ƹ","ƽ","ǆ","ǆ","ǉ","ǉ","ǌ","ǌ","ǎ","ǐ","ǒ","ǔ","ǖ","ǘ","ǚ","ǜ","ǟ",
    "ǡ","ǣ","ǥ","ǧ","ǩ","ǫ","ǭ","ǯ","ǳ","ǳ","ǵ","ƕ","ƿ","ǹ","ǻ","ǽ","ǿ","ά","έ","ή","ί","ό","ύ",
    "ώ","α","β","γ","δ","ε","ζ","η","θ","ι","κ","λ","μ","ν","ξ","ο","π","ρ","σ","τ","υ","φ","χ",
    "ψ","ω","ϊ","ϋ","ϗ","ϙ","ϛ","ϝ","ϟ","ϡ","ϣ","ϥ","ϧ","ϩ","ϫ","ϭ","ϯ","θ","ϸ","ϲ","ϻ",
    "U+037B","U+037C","U+037D","ҁ","ҋ","ҍ","ҏ","ґ","ғ","ҕ","җ","ҙ","қ","ҝ","ҟ","ҡ","ң","ҥ","ҧ",
    "ҩ","ҫ","ҭ","ү","ұ","ҳ","ҵ","ҷ","ҹ","һ","ҽ","ҿ","ӏ","ӂ","ӄ","ӆ","ӈ","ӊ","ӌ","ӎ","ӑ","ӓ","ӕ",
    "ӗ","ә","ӛ","ӝ","ӟ","ӡ","ӣ","ӥ","ӧ","ө","ӫ","ӭ","ӯ","ӱ","ӳ","ӵ","ӷ","ӹ","ӻ","ӽ","ӿ",
    "U+2D00","U+2D01","U+2D02","U+2D03","U+2D04","U+2D05","U+2D06","U+2D07","U+2D08","U+2D09",
    "U+2D0A","U+2D0B","U+2D0C","U+2D0D","U+2D0E","U+2D0F","U+2D10","U+2D11","U+2D12","U+2D13",
    "U+2D14","U+2D15","U+2D16","U+2D17","U+2D18","U+2D19","U+2D1A","U+2D1B","U+2D1C","U+2D1D",
    "U+2D1E","U+2D1F","U+2D20","U+2D21","U+2D22","U+2D23","U+2D24","U+2D25","U+2D27","U+2D2D",
    "U+AB70","U+AB71","U+AB72","U+AB73","U+AB74","U+AB75","U+AB76","U+AB77","U+AB78","U+AB79",
    "U+AB7A","U+AB7B","U+AB7C","U+AB7D","U+AB7E","U+AB7F","ꮀ","ꮁ","ꮂ","ꮃ","ꮄ","ꮅ","ꮆ","ꮇ","ꮈ",
    "ꮉ","ꮊ","ꮋ","ꮌ","ꮍ","ꮎ","ꮏ","ꮐ","ꮑ","ꮒ","ꮓ","ꮔ","ꮕ","ꮖ","ꮗ","ꮘ","ꮙ","ꮚ","ꮛ","ꮜ","ꮝ","ꮞ","ꮟ",
    "ꮠ","ꮡ","ꮢ","ꮣ","ꮤ","ꮥ","ꮦ","ꮧ","ꮨ","ꮩ","ꮪ","ꮫ","ꮬ","ꮭ","ꮮ","ꮯ","ꮰ","ꮱ","ꮲ","ꮳ","ꮴ","ꮵ","ꮶ",
    "ꮷ","ꮸ","ꮹ","ꮺ","ꮻ","ꮼ","ꮽ","ꮾ","ꮿ","ᏸ","ᏹ","ᏺ","ᏻ","ᏼ","ᏽ","ᲊ","ა","ბ","გ","დ","ე","ვ","ზ",
    "თ","ი","კ","ლ","მ","ნ","ო","პ","ჟ","რ","ს","ტ","უ","ფ","ქ","ღ","ყ","შ","ჩ","ც","ძ","წ","ჭ",
    "ხ","ჯ","ჰ","ჱ","ჲ","ჳ","ჴ","ჵ","ჶ","ჷ","ჸ","ჹ","ჺ","ჽ","ჾ","ჿ","ẁ","ẃ","ẅ","ẇ","ẉ","ẋ","ẍ",
    "ẏ","ẑ","ẓ","ẕ","ß","ạ","ả","ấ","ầ","ẩ","ẫ","ậ","ắ","ằ","ẳ","ẵ","ặ","ẹ","ẻ","ẽ","ế","ề","ể",
    "ễ","ệ","ỉ","ị","ọ","ỏ","ố","ồ","ổ","ỗ","ộ","ớ","ờ","ở","ỡ","ợ","ụ","ủ","ứ","ừ","ử","ữ","ự",
    "ỳ","ỵ","ỷ","ỹ","ỻ","ỽ","ỿ","ᾀ","ᾁ","ᾂ","ᾃ","ᾄ","ᾅ","ᾆ","ᾇ","ᾐ","ᾑ","ᾒ","ᾓ","ᾔ","ᾕ","ᾖ","ᾗ",
    "ᾠ","ᾡ","ᾢ","ᾣ","ᾤ","ᾥ","ᾦ","ᾧ","ᾰ","ᾱ","U+1F70","U+1F71","ᾳ","U+1F72","U+1F73","U+1F74",
    "U+1F75","ῃ","ῐ","ῑ","U+1F76","U+1F77","ῠ","ῡ","U+1F7A","U+1F7B","ῥ","U+1F78","U+1F79",
    "U+1F7C","U+1F7D","ῳ","ↄ","ⓐ","ⓑ","ⓒ","ⓓ","ⓔ","ⓕ","ⓖ","ⓗ","ⓘ","ⓙ","ⓚ","ⓛ","ⓜ","ⓝ","ⓞ","ⓟ",
    "ⓠ","ⓡ","ⓢ","ⓣ","ⓤ","ⓥ","ⓦ","ⓧ","ⓨ","ⓩ","ⲁ","ⲃ","ⲅ","ⲇ","ⲉ","ⲋ","ⲍ","ⲏ","ⲑ","ⲓ","ⲕ","ⲗ","ⲙ",
    "ⲛ","ⲝ","ⲟ","ⲡ","ⲣ","ⲥ","ⲧ","ⲩ","ⲫ","ⲭ","ⲯ","ⲱ","ⲳ","ⲵ","ⲷ","ⲹ","ⲻ","ⲽ","ⲿ","ⳁ","ⳃ","ⳅ","ⳇ",
    "ⳉ","ⳋ","ⳍ","ⳏ","ⳑ","ⳓ","ⳕ","ⳗ","ⳙ","ⳛ","ⳝ","ⳟ","ⳡ","ⳣ","ⳬ","ⳮ","ⳳ","ꚁ","ꚃ","ꚅ","ꚇ","ꚉ","ꚋ",
    "ꚍ","ꚏ","ꚑ","ꚓ","ꚕ","ꚗ","ꚙ","ꚛ","ꞁ","ꞃ","ꞅ","ꞇ","ꞌ","U+0265","ꞑ","ꞓ","ꞗ","ꞙ","ꞛ","ꞝ","ꞟ",
    "ꞡ","ꞣ","ꞥ","ꞧ","ꞩ","U+0266","U+025C","U+0261","U+026C","U+026A","ʞ","ʇ","ʝ","U+AB53","ꞵ",
    "ꞷ","ꞹ","ꞻ","ꞽ","ꞿ","ꟁ","ꟃ","ꞔ","ʂ","ᶎ","ꟈ","ꟊ","U+0264","ꟍ","꟏","ꟑ","ꟓ","ꟕ","ꟗ","ꟙ","ꟛ",
    "ƛ","ꟶ">>

CasedUpper == UpperLetters \o UpperLatin1 \o UpperOther
CasedLower == LowerLetters \o LowerLatin1 \o LowerOther

LowerTable ==
  [c \in Range(CasedUpper) |->
     CasedLower[CHOOSE i \in 1..Len(CasedUpper) : CasedUpper[i] = c]]

\* the lower case of one character, whatever is around it
LowerChar(c) == IF c \in DOMAIN LowerTable THEN LowerTable[c] ELSE c

\* the characters with the property Cased and without Case_Ignorable
CasedLetters ==
  {"A","B","C","D","E","F","G","H","I","J","K","L","M","N","O","P","Q","R","S","T","U","V","W",
   "X","Y","Z","a","b","c","d","e","f","g","h","i","j","k","l","m","n","o","p","q","r","s","t",
   "u","v","w","x","y","z","ª","µ","º","À","Á","Â","Ã","Ä","Å","Æ","Ç","È","É","Ê","Ë","Ì","Í",
   "Î","Ï","Ð","Ñ","Ò","Ó","Ô","Õ","Ö","Ø","Ù","Ú","Û","Ü","Ý","Þ","ß","à","á","â","ã","ä","å",
   "æ","ç","è","é","ê","ë","ì","í","î","ï","ð","ñ","ò","ó","ô","õ","ö","ø","ù","ú","û","ü","ý",
   "þ","ÿ","ƀ","Ɓ","Ƃ","ƃ","Ƅ","ƅ","Ɔ","Ƈ","ƈ","Ɖ","Ɗ","Ƌ","ƌ","ƍ","Ǝ","Ə","Ɛ","Ƒ","ƒ","Ɠ","Ɣ",
   "ƕ","Ɩ","Ɨ","Ƙ","ƙ","ƚ","ƛ","Ɯ","Ɲ","ƞ","Ɵ","Ơ","ơ","Ƣ","ƣ","Ƥ","ƥ","Ʀ","Ƨ","ƨ","Ʃ","ƪ","ƫ",
   "Ƭ","ƭ","Ʈ","Ư","ư","Ʊ","Ʋ","Ƴ","ƴ","Ƶ","ƶ","Ʒ","Ƹ","ƹ","ƺ","Ƽ","ƽ","ƾ","ƿ","Ǆ","ǅ","ǆ","Ǉ",
   "ǈ","ǉ","Ǌ","ǋ","ǌ","Ǎ","ǎ","Ǐ","ǐ","Ǒ","ǒ","Ǔ","ǔ","Ǖ","ǖ","Ǘ","ǘ","Ǚ","ǚ","Ǜ","ǜ","ǝ","Ǟ",
   "ǟ","Ǡ","ǡ","Ǣ","ǣ","Ǥ","ǥ","Ǧ","ǧ","Ǩ","ǩ","Ǫ","ǫ","Ǭ","ǭ","Ǯ","ǯ","ǰ","Ǳ","ǲ","ǳ","Ǵ","ǵ",
   "Ƕ","Ƿ","Ǹ","ǹ","Ǻ","ǻ","Ǽ","ǽ","Ǿ","ǿ","ʀ","ʁ","ʂ","ʃ","ʄ","ʅ","ʆ","ʇ","ʈ","ʉ","ʊ","ʋ","ʌ",
   "ʍ","ʎ","ʏ","ʐ","ʑ","ʒ","ʓ","ʖ","ʗ","ʘ","ʙ","ʚ","ʛ","ʜ","ʝ","ʞ","ʟ","ʠ","ʡ","ʢ","ʣ","ʤ","ʥ",
   "ʦ","ʧ","ʨ","ʩ","ʪ","ʫ","ʬ","ʭ","ʮ","ʯ","Ά","Έ","Ή","Ί","Ό","Ύ","Ώ","ΐ","Α","Β","Γ","Δ","Ε",
   "Ζ","Η","Θ","Ι","Κ","Λ","Μ","Ν","Ξ","Ο","Π","Ρ","Σ","Τ","Υ","Φ","Χ","Ψ","Ω","Ϊ","Ϋ","ά","έ",
   "ή","ί","ΰ","α","β","γ","δ","ε","ζ","η","θ","ι","κ","λ","μ","ν","ξ","ο","π","ρ","ς","σ","τ",
   "υ","φ","χ","ψ","ω","ϊ","ϋ","ό","ύ","ώ","Ϗ","ϐ","ϑ","ϒ","ϓ","ϔ","ϕ","ϖ","ϗ","Ϙ","ϙ","Ϛ","ϛ",
   "Ϝ","ϝ","Ϟ","ϟ","Ϡ","ϡ","Ϣ","ϣ","Ϥ","ϥ","Ϧ","ϧ","Ϩ","ϩ","Ϫ","ϫ","Ϭ","ϭ","Ϯ","ϯ","ϰ","ϱ","ϲ",
   "ϳ","ϴ","ϵ","Ϸ","ϸ","Ϲ","Ϻ","ϻ","ϼ","Ͻ","Ͼ","Ͽ","Ҁ","ҁ","Ҋ","ҋ","Ҍ","ҍ","Ҏ","ҏ","Ґ","ґ","Ғ",
   "ғ","Ҕ","ҕ","Җ","җ","Ҙ","ҙ","Қ","қ","Ҝ","ҝ","Ҟ","ҟ","Ҡ","ҡ","Ң","ң","Ҥ","ҥ","Ҧ","ҧ","Ҩ","ҩ",
   "Ҫ","ҫ","Ҭ","ҭ","Ү","ү","Ұ","ұ","Ҳ","ҳ","Ҵ","ҵ","Ҷ","ҷ","Ҹ","ҹ","Һ","һ","Ҽ","ҽ","Ҿ","ҿ","Ӏ",
   "Ӂ","ӂ","Ӄ","ӄ","Ӆ","ӆ","Ӈ","ӈ","Ӊ","ӊ","Ӌ","ӌ","Ӎ","ӎ","ӏ","Ӑ","ӑ","Ӓ","ӓ","Ӕ","ӕ","Ӗ","ӗ",
   "Ә","ә","Ӛ","ӛ","Ӝ","ӝ","Ӟ","ӟ","Ӡ","ӡ","Ӣ","ӣ","Ӥ","ӥ","Ӧ","ӧ","Ө","ө","Ӫ","ӫ","Ӭ","ӭ","Ӯ",
   "ӯ","Ӱ","ӱ","Ӳ","ӳ","Ӵ","ӵ","Ӷ","ӷ","Ӹ","ӹ","Ӻ","ӻ","Ӽ","ӽ","Ӿ","ӿ","ր","ց","ւ","փ","ք","օ",
   "ֆ","և","ֈ","Ⴀ","Ⴁ","Ⴂ","Ⴃ","Ⴄ","Ⴅ","Ⴆ","Ⴇ","Ⴈ","Ⴉ","Ⴊ","Ⴋ","Ⴌ","Ⴍ","Ⴎ","Ⴏ","Ⴐ","Ⴑ","Ⴒ","Ⴓ",
   "Ⴔ","Ⴕ","Ⴖ","Ⴗ","Ⴘ","Ⴙ","Ⴚ","Ⴛ","Ⴜ","Ⴝ","Ⴞ","Ⴟ","Ⴠ","Ⴡ","Ⴢ","Ⴣ","Ⴤ","Ⴥ","Ⴧ","Ⴭ","ა","ბ","გ",
   "დ","ე","ვ","ზ","თ","ი","კ","ლ","მ","ნ","ო","პ","ჟ","რ","ს","ტ","უ","ფ","ქ","ღ","ყ","შ","ჩ",
   "ც","ძ","წ","ჭ","ხ","ჯ","ჰ","ჱ","ჲ","ჳ","ჴ","ჵ","ჶ","ჷ","ჸ","ჹ","ჺ","ჽ","ჾ","ჿ","Ꭰ","Ꭱ","Ꭲ",
   "Ꭳ","Ꭴ","Ꭵ","Ꭶ","Ꭷ","Ꭸ","Ꭹ","Ꭺ","Ꭻ","Ꭼ","Ꭽ","Ꭾ","Ꭿ","Ꮀ","Ꮁ","Ꮂ","Ꮃ","Ꮄ","Ꮅ","Ꮆ","Ꮇ","Ꮈ","Ꮉ",
   "Ꮊ","Ꮋ","Ꮌ","Ꮍ","Ꮎ","Ꮏ","Ꮐ","Ꮑ","Ꮒ","Ꮓ","Ꮔ","Ꮕ","Ꮖ","Ꮗ","Ꮘ","Ꮙ","Ꮚ","Ꮛ","Ꮜ","Ꮝ","Ꮞ","Ꮟ","Ꮠ",
   "Ꮡ","Ꮢ","Ꮣ","Ꮤ","Ꮥ","Ꮦ","Ꮧ","Ꮨ","Ꮩ","Ꮪ","Ꮫ","Ꮬ","Ꮭ","Ꮮ","Ꮯ","Ꮰ","Ꮱ","Ꮲ","Ꮳ","Ꮴ","Ꮵ","Ꮶ","Ꮷ",
   "Ꮸ","Ꮹ","Ꮺ","Ꮻ","Ꮼ","Ꮽ","Ꮾ","Ꮿ","Ᏸ","Ᏹ","Ᏺ","Ᏻ","Ᏼ","Ᏽ","ᏸ","ᏹ","ᏺ","ᏻ","ᏼ","ᏽ","ᲀ","ᲁ","ᲂ",
   "ᲃ","ᲄ","ᲅ","ᲆ","ᲇ","ᲈ","Ᲊ","ᲊ","Ა","Ბ","Გ","Დ","Ე","Ვ","Ზ","Თ","Ი","Კ","Ლ","Მ","Ნ","Ო","Პ",
   "Ჟ","Რ","Ს","Ტ","Უ","Ფ","Ქ","Ღ","Ყ","Შ","Ჩ","Ც","Ძ","Წ","Ჭ","Ხ","Ჯ","Ჰ","Ჱ","Ჲ","Ჳ","Ჴ","Ჵ",
   "Ჶ","Ჷ","Ჸ","Ჹ","Ჺ","Ჽ","Ჾ","Ჿ","ᶀ","ᶁ","ᶂ","ᶃ","ᶄ","ᶅ","ᶆ","ᶇ","ᶈ","ᶉ","ᶊ","ᶋ","ᶌ","ᶍ","ᶎ",
   "ᶏ","ᶐ","ᶑ","ᶒ","ᶓ","ᶔ","ᶕ","ᶖ","ᶗ","ᶘ","ᶙ","ᶚ","Ẁ","ẁ","Ẃ","ẃ","Ẅ","ẅ","Ẇ","ẇ","Ẉ","ẉ","Ẋ",
   "ẋ","Ẍ","ẍ","Ẏ","ẏ","Ẑ","ẑ","Ẓ","ẓ","Ẕ","ẕ","ẖ","ẗ","ẘ","ẙ","ẚ","ẛ","ẜ","ẝ","ẞ","ẟ","Ạ","ạ",
   "Ả","ả","Ấ","ấ","Ầ","ầ","Ẩ","ẩ","Ẫ","ẫ","Ậ","ậ","Ắ","ắ","Ằ","ằ","Ẳ","ẳ","Ẵ","ẵ","Ặ","ặ","Ẹ",
   "ẹ","Ẻ","ẻ","Ẽ","ẽ","Ế","ế","Ề","ề","Ể","ể","Ễ","ễ","Ệ","ệ","Ỉ","ỉ","Ị","ị","Ọ","ọ","Ỏ","ỏ",
   "Ố","ố","Ồ","ồ","Ổ","ổ","Ỗ","ỗ","Ộ","ộ","Ớ","ớ","Ờ","ờ","Ở","ở","Ỡ","ỡ","Ợ","ợ","Ụ","ụ","Ủ",
   "ủ","Ứ","ứ","Ừ","ừ","Ử","ử","Ữ","ữ","Ự","ự","Ỳ","ỳ","Ỵ","ỵ","Ỷ","ỷ","Ỹ","ỹ","Ỻ","ỻ","Ỽ","ỽ",
   "Ỿ","ỿ","ᾀ","ᾁ","ᾂ","ᾃ","ᾄ","ᾅ","ᾆ","ᾇ","ᾈ","ᾉ","ᾊ","ᾋ","ᾌ","ᾍ","ᾎ","ᾏ","ᾐ","ᾑ","ᾒ","ᾓ","ᾔ",
   "ᾕ","ᾖ","ᾗ","ᾘ","ᾙ","ᾚ","ᾛ","ᾜ","ᾝ","ᾞ","ᾟ","ᾠ","ᾡ","ᾢ","ᾣ","ᾤ","ᾥ","ᾦ","ᾧ","ᾨ","ᾩ","ᾪ","ᾫ",
   "ᾬ","ᾭ","ᾮ","ᾯ","ᾰ","ᾱ","ᾲ","ᾳ","ᾴ","ᾶ","ᾷ","Ᾰ","Ᾱ","Ὰ","Ά","ᾼ","ι","ῂ","ῃ","ῄ","ῆ","ῇ","Ὲ",
   "Έ","Ὴ","Ή","ῌ","ῐ","ῑ","ῒ","ΐ","ῖ","ῗ","Ῐ","Ῑ","Ὶ","Ί","ῠ","ῡ","ῢ","ΰ","ῤ","ῥ","ῦ","ῧ","Ῠ",
   "Ῡ","Ὺ","Ύ","Ῥ","ῲ","ῳ","ῴ","ῶ","ῷ","Ὸ","Ό","Ὼ","Ώ","ῼ","Ↄ","ↄ","Ⓐ","Ⓑ","Ⓒ","Ⓓ","Ⓔ","Ⓕ","Ⓖ",
   "Ⓗ","Ⓘ","Ⓙ","Ⓚ","Ⓛ","Ⓜ","Ⓝ","Ⓞ","Ⓟ","Ⓠ","Ⓡ","Ⓢ","Ⓣ","Ⓤ","Ⓥ","Ⓦ","Ⓧ","Ⓨ","Ⓩ","ⓐ","ⓑ","ⓒ","ⓓ",
   "ⓔ","ⓕ","ⓖ","ⓗ","ⓘ","ⓙ","ⓚ","ⓛ","ⓜ","ⓝ","ⓞ","ⓟ","ⓠ","ⓡ","ⓢ","ⓣ","ⓤ","ⓥ","ⓦ","ⓧ","ⓨ","ⓩ","Ⲁ",
   "ⲁ","Ⲃ","ⲃ","Ⲅ","ⲅ","Ⲇ","ⲇ","Ⲉ","ⲉ","Ⲋ","ⲋ","Ⲍ","ⲍ","Ⲏ","ⲏ","Ⲑ","ⲑ","Ⲓ","ⲓ","Ⲕ","ⲕ","Ⲗ","ⲗ",
   "Ⲙ","ⲙ","Ⲛ","ⲛ","Ⲝ","ⲝ","Ⲟ","ⲟ","Ⲡ","ⲡ","Ⲣ","ⲣ","Ⲥ","ⲥ","Ⲧ","ⲧ","Ⲩ","ⲩ","Ⲫ","ⲫ","Ⲭ","ⲭ","Ⲯ",
   "ⲯ","Ⲱ","ⲱ","Ⲳ","ⲳ","Ⲵ","ⲵ","Ⲷ","ⲷ","Ⲹ","ⲹ","Ⲻ","ⲻ","Ⲽ","ⲽ","Ⲿ","ⲿ","Ⳁ","ⳁ","Ⳃ","ⳃ","Ⳅ","ⳅ",
   "Ⳇ","ⳇ","Ⳉ","ⳉ","Ⳋ","ⳋ","Ⳍ","ⳍ","Ⳏ","ⳏ","Ⳑ","ⳑ","Ⳓ","ⳓ","Ⳕ","ⳕ","Ⳗ","ⳗ","Ⳙ","ⳙ","Ⳛ","ⳛ","Ⳝ",
   "ⳝ","Ⳟ","ⳟ","Ⳡ","ⳡ","Ⳣ","ⳣ","ⳤ","Ⳬ","ⳬ","Ⳮ","ⳮ","Ⳳ","ⳳ","Ꚁ","ꚁ","Ꚃ","ꚃ","Ꚅ","ꚅ","Ꚇ","ꚇ","Ꚉ",
   "ꚉ","Ꚋ","ꚋ","Ꚍ","ꚍ","Ꚏ","ꚏ","Ꚑ","ꚑ","Ꚓ","ꚓ","Ꚕ","ꚕ","Ꚗ","ꚗ","Ꚙ","ꚙ","Ꚛ","ꚛ","Ꞁ","ꞁ","Ꞃ","ꞃ",
   "Ꞅ","ꞅ","Ꞇ","ꞇ","Ꞌ","ꞌ","Ɥ","ꞎ","Ꞑ","ꞑ","Ꞓ","ꞓ","ꞔ","ꞕ","Ꞗ","ꞗ","Ꞙ","ꞙ","Ꞛ","ꞛ","Ꞝ","ꞝ","Ꞟ",
   "ꞟ","Ꞡ","ꞡ","Ꞣ","ꞣ","Ꞥ","ꞥ","Ꞧ","ꞧ","Ꞩ","ꞩ","Ɦ","Ɜ","Ɡ","Ɬ","Ɪ","ꞯ","Ʞ","Ʇ","Ʝ","Ꭓ","Ꞵ","ꞵ",
   "Ꞷ","ꞷ","Ꞹ","ꞹ","Ꞻ","ꞻ","Ꞽ","ꞽ","Ꞿ","ꞿ","Ꟁ","ꟁ","Ꟃ","ꟃ","Ꞔ","Ʂ","Ᶎ","Ꟈ","ꟈ","Ꟊ","ꟊ","Ɤ","Ꟍ",
   "ꟍ","꟎","꟏","Ꟑ","ꟑ","꟒","ꟓ","꟔","ꟕ","Ꟗ","ꟗ","Ꟙ","ꟙ","Ꟛ","ꟛ","Ƛ","Ꟶ","ꟶ","ꟺ","ꮀ","ꮁ","ꮂ","ꮃ",
   "ꮄ","ꮅ","ꮆ","ꮇ","ꮈ","ꮉ","ꮊ","ꮋ","ꮌ","ꮍ","ꮎ","ꮏ","ꮐ","ꮑ","ꮒ","ꮓ","ꮔ","ꮕ","ꮖ","ꮗ","ꮘ","ꮙ","ꮚ",
   "ꮛ","ꮜ","ꮝ","ꮞ","ꮟ","ꮠ","ꮡ","ꮢ","ꮣ","ꮤ","ꮥ","ꮦ","ꮧ","ꮨ","ꮩ","ꮪ","ꮫ","ꮬ","ꮭ","ꮮ","ꮯ","ꮰ","ꮱ",
   "ꮲ","ꮳ","ꮴ","ꮵ","ꮶ","ꮷ","ꮸ","ꮹ","ꮺ","ꮻ","ꮼ","ꮽ","ꮾ","ꮿ"}

\* the characters with the property Case_Ignorable
CaseIgnorable ==
  {"'",".",":","^","¨","­","¯","´","·","¸","ʰ","ʱ","ʲ","ʳ","ʴ","ʵ","ʶ","ʷ","ʸ","ʹ","ʺ","ʻ","ʼ",
   "ʽ","ʾ","ʿ","ˀ","ˁ","˂","˃","˄","˅","ˆ","ˇ","ˈ","ˉ","ˊ","ˋ","ˌ","ˍ","ˎ","ˏ","ː","ˑ","˒","˓",
   "˔","˕","˖","˗","˘","˙","˚","˛","˜","˝","˞","˟","ˠ","ˡ","ˢ","ˣ","ˤ","˥","˦","˧","˨","˩","˪",
   "˫","ˬ","˭","ˮ","˯","˰","˱","˲","˳","˴","˵","˶","˷","˸","˹","˺","˻","˼","˽","˾","˿","΄","΅",
   "·","҃","҄","҅","҆","҇","҈","҉","֑","֒","֓","֔","֕","֖","֗","֘","֙","֚","֛","֜","֝","֞","֟",
   "֠","֡","֢","֣","֤","֥","֦","֧","֨","֩","֪","֫","֬","֭","֮","֯","ְ","ֱ","ֲ","ֳ","ִ","ֵ","ֶ",
   "ַ","ָ","ֹ","ֺ","ֻ","ּ","ֽ","ֿ","ׁ","ׂ","ׄ","ׅ","ׇ","״","ۖ","ۗ","ۘ","ۙ","ۚ","ۛ","ۜ","۝","۟",
   "۠","ۡ","ۢ","ۣ","ۤ","ۥ","ۦ","ۧ","ۨ","۪","۫","۬","ۭ","ަ","ާ","ި","ީ","ު","ޫ","ެ","ޭ","ޮ","ޯ",
   "ް","߫","߬","߭","߮","߯","߰","߱","߲","߳","ߴ","ߵ","ߺ","߽","࢈","࢐","࢑","ࢗ","࢘","࢙","࢚","࢛","࢜",
   "࢝","࢞","࢟","ࣉ","࣊","࣋","࣌","࣍","࣎","࣏","࣐","࣑","࣒","࣓","ࣔ","ࣕ","ࣖ","ࣗ","ࣘ","ࣙ","ࣚ","ࣛ","ࣜ",
   "ࣝ","ࣞ","ࣟ","࣠","࣡","࣢","ࣣ","ࣤ","ࣥ","ࣦ","ࣧ","ࣨ","ࣩ","࣪","࣫","࣬","࣭","࣮","࣯","ࣰ","ࣱ","ࣲ","ࣳ",
   "ࣴ","ࣵ","ࣶ","ࣷ","ࣸ","ࣹ","ࣺ","ࣻ","ࣼ","ࣽ","ࣾ","ࣿ","ঁ","়","ু","ূ","ৃ","ৄ","্","ৢ","ৣ","৾","ઁ",
   "ં","઼","ુ","ૂ","ૃ","ૄ","ૅ","ે","ૈ","્","ૢ","ૣ","ૺ","ૻ","ૼ","૽","૾","૿","ஂ","ீ","்","ಁ","಼",
   "ಿ","ೆ","ೌ","್","ೢ","ೣ","ඁ","්","ි","ී","ු","ූ","ັ","ິ","ີ","ຶ","ື","ຸ","ູ","຺","ົ","ຼ","ໆ",
   "່","້","໊","໋","໌","ໍ","໎","ྀ","ཱྀ","ྂ","ྃ","྄","྆","྇","ྍ","ྎ","ྏ","ྐ","ྑ","ྒ","ྒྷ","ྔ","ྕ",
   "ྖ","ྗ","ྙ","ྚ","ྛ","ྜ","ྜྷ","ྞ","ྟ","ྠ","ྡ","ྡྷ","ྣ","ྤ","ྥ","ྦ","ྦྷ","ྨ","ྩ","ྪ","ྫ","ྫྷ","ྭ",
   "ྮ","ྯ","ྰ","ྱ","ྲ","ླ","ྴ","ྵ","ྶ","ྷ","ྸ","ྐྵ","ྺ","ྻ","ྼ","࿆","ႂ","ႅ","ႆ","ႍ","ႝ","ჼ","឴",
   "឵","ិ","ី","ឹ","ឺ","ុ","ូ","ួ","ំ","៉","៊","់","៌","៍","៎","៏","័","៑","្","៓","ៗ","៝","ᢅ",
   "ᢆ","ᢩ","ᪧ","᪰","᪱","᪲","᪳","᪴","᪵","᪶","᪷","᪸","᪹","᪺","᪻","᪼","᪽","᪾","ᪿ","ᫀ","᫁","᫂","᫃",
   "᫄","᫅","᫆","᫇","᫈","᫉","᫊","᫋","ᫌ","ᫍ","ᫎ","᫏","᫐","᫑","᫒","᫓","᫔","᫕","᫖","᫗","᫘","᫙","᫚",
   "᫛","᫜","᫝","᫠","᫡","᫢","᫣","᫤","᫥","᫦","᫧","᫨","᫩","᫪","᫫","ᮀ","ᮁ","ᮢ","ᮣ","ᮤ","ᮥ","ᮨ","ᮩ",
   "᮫","ᮬ","ᮭ","᯦","ᯨ","ᯩ","ᯭ","ᯯ","ᯰ","ᯱ","᳐","᳑","᳒","᳔","᳕","᳖","᳗","᳘","᳙","᳚","᳛","᳜","᳝",
   "᳞","᳟","᳠","᳢","᳣","᳤","᳥","᳦","᳧","᳨","᳭","᳴","᳸","᳹","ᶛ","ᶜ","ᶝ","ᶞ","ᶟ","ᶠ","ᶡ","ᶢ","ᶣ",
   "ᶤ","ᶥ","ᶦ","ᶧ","ᶨ","ᶩ","ᶪ","ᶫ","ᶬ","ᶭ","ᶮ","ᶯ","ᶰ","ᶱ","ᶲ","ᶳ","ᶴ","ᶵ","ᶶ","ᶷ","ᶸ","ᶹ","ᶺ",
   "ᶻ","ᶼ","ᶽ","ᶾ","ᶿ","᷀","᷁","᷂","᷃","᷄","᷅","᷆","᷇","᷈","᷉","᷊","᷋","᷌","᷍","᷎","᷏","᷐","᷑",
   "᷒","ᷓ","ᷔ","ᷕ","ᷖ","ᷗ","ᷘ","ᷙ","ᷚ","ᷛ","ᷜ","ᷝ","ᷞ","ᷟ","ᷠ","ᷡ","ᷢ","ᷣ","ᷤ","ᷥ","ᷦ","ᷧ","ᷨ",
   "ᷩ","ᷪ","ᷫ","ᷬ","ᷭ","ᷮ","ᷯ","ᷰ","ᷱ","ᷲ","ᷳ","ᷴ","᷵","᷶","᷷","᷸","᷹","᷺","᷻","᷼","᷽","᷾","᷿",
   "᾽","᾿","῀","῁","῍","῎","῏","῝","῞","῟","῭","΅","`","´","῾","ₐ","ₑ","ₒ","ₓ","ₔ","ₕ","ₖ","ₗ",
   "ₘ","ₙ","ₚ","ₛ","ₜ","⃐","⃑","⃒","⃓","⃔","⃕","⃖","⃗","⃘","⃙","⃚","⃛","⃜","⃝","⃞","⃟","⃠","⃡",
   "⃢","⃣","⃤","⃥","⃦","⃧","⃨","⃩","⃪","⃫","⃬","⃭","⃮","⃯","⃰","⳯","⳰","⳱","ⷠ","ⷡ","ⷢ","ⷣ","ⷤ",
   "ⷥ","ⷦ","ⷧ","ⷨ","ⷩ","ⷪ","ⷫ","ⷬ","ⷭ","ⷮ","ⷯ","ⷰ","ⷱ","ⷲ","ⷳ","ⷴ","ⷵ","ⷶ","ⷷ","ⷸ","ⷹ","ⷺ","ⷻ",
   "ⷼ","ⷽ","ⷾ","ⷿ","゙","゚","゛","゜","ゝ","ゞ","ー","ヽ","ヾ","ꓸ","ꓹ","ꓺ","ꓻ","ꓼ","ꓽ","ꚜ","ꚝ","ꚞ","ꚟ",
   "꛰","꛱","ꞈ","꞉","꞊","꟱","ꟲ","ꟳ","ꟴ","ꟸ","ꟹ","꣄","ꣅ","꣠","꣡","꣢","꣣","꣤","꣥","꣦","꣧","꣨","꣩",
   "꣪","꣫","꣬","꣭","꣮","꣯","꣰","꣱","ꣿ","ꦀ","ꦁ","ꦂ","꦳","ꦶ","ꦷ","ꦸ","ꦹ","ꦼ","ꦽ","ꧏ","ꧥ","ꧦ","ꪰ",
   "ꪲ","ꪳ","ꪴ","ꪷ","ꪸ","ꪾ","꪿","꫁","ꫝ","ꫬ","ꫭ","ꫳ","ꫴ","꫶","ꯥ","ꯨ","꯭","﮲","﮳","﮴","﮵","﮶","﮷",
   "﮸","﮹","﮺","﮻","﮼","﮽","﮾","﮿","﯀","﯁","﯂","﻿","ﾞ","ﾟ","￣","￹","￺","￻"}

\* the condition Final_Sigma: before the character at i comes a cased letter,
\* characters that are ignored between them, and after it comes no cased
\* letter, characters that are ignored again skipped
FinalSigma(s, i) ==
  /\ \E j \in 1..(i - 1) :
       s[j] \in CasedLetters /\ \A k \in (j + 1)..(i - 1) : s[k] \in CaseIgnorable
  /\ ~\E j \in (i + 1)..Len(s) :
        s[j] \in CasedLetters /\ \A k \in (i + 1)..(j - 1) : s[k] \in CaseIgnorable

\* String.prototype.toLowerCase: every character by the table, and the
\* capital sigma at the end of a word as the final small sigma
toLowerCase(s) ==
  [i \in 1..Len(s) |-> IF s[i] = "Σ" /\ FinalSigma(s, i) THEN "ς" ELSE LowerChar(s[i])]

\* the white space and line terminators trim() and Number() strip: space,
\* tab, line feed, carriage return, form feed, vertical tab (U+000B),
\* no-break space (U+00A0), byte order mark (U+FEFF) and ogham space mark
\* (U+1680).  The other ones (U+2000 to U+200A, U+2028, U+2029, U+202F,
\* U+205F, U+3000) are no characters of a string of this module.
WhiteSpace == {" ", "\t", "\n", "\r", "\f", "", " ", "﻿", " "}

\* the number of white space characters at the start and at the end of s
LeadingWhite(s) ==
  Cardinality({i \in 1..Len(s) : \A j \in 1..i : s[j] \in WhiteSpace})
TrailingWhite(s) ==
  Cardinality({i \in 1..Len(s) : \A j \in i..Len(s) : s[j] \in WhiteSpace})

TrimStart(s) == SubSeq(s, LeadingWhite(s) + 1, Len(s))
TrimEnd(s) == SubSeq(s, 1, Len(s) - TrailingWhite(s))

trim(s) == TrimEnd(TrimStart(s))

DigitVal(c) == (CHOOSE i \in 1..10 : Digits[i] = c) - 1
IsDigit(c) == c \in Range(Digits)

RECURSIVE NatToString(_)
NatToString(n) ==
  IF n < 10 THEN <<Digits[n + 1]>>
  ELSE NatToString(n \div 10) \o <<Digits[(n % 10) + 1]>>

DigitChars(ds) == [i \in 1..Len(ds) |-> Digits[ds[i] + 1]]
Zeros(k) == [i \in 1..k |-> "0"]

\* the exponent part of a numeral in exponent form
ExponentPart(e) ==
  IF e < 0 THEN <<"e", "-">> \o NatToString(0 - e) ELSE <<"e", "+">> \o NatToString(e)

\* the numeral of the k digits ds with n of them before the decimal point:
\* plain digits up to 21 integer digits and down to 0.000001, the exponent
\* form beyond
Numeral(ds, k, n) ==
  IF k = 0 THEN <<"0">>
  ELSE IF k <= n /\ n <= 21 THEN ds \o Zeros(n - k)
  ELSE IF 0 < n /\ n <= 21 THEN SubSeq(ds, 1, n) \o <<".">> \o SubSeq(ds, n + 1, k)
  ELSE IF -6 < n /\ n <= 0 THEN <<"0", ".">> \o Zeros(0 - n) \o ds
  ELSE IF k = 1 THEN ds \o ExponentPart(n - 1)
  ELSE <<ds[1], ".">> \o SubSeq(ds, 2, k) \o ExponentPart(n - 1)

\* Number.prototype.toString
NumberToString(v) ==
  IF v.neg THEN <<"-">> \o Numeral(DigitChars(v.m), Len(v.m), Top(v))
  ELSE Numeral(DigitChars(v.m), Len(v.m), Top(v))

K_toString == <<"t","o","S","t","r","i","n","g">>

\* ToPrimitive(v) throws a TypeError, for String(v) and for Number(v) alike:
\* v is an object with an own toString, which as parsed JSON is no function
\* (an own valueOf alone leaves Object.prototype.toString in reach), or an
\* array whose join converts such an object
RECURSIVE ToPrimitiveThrows(_)
ToPrimitiveThrows(v) ==
  CASE v.t = "object" -> \E i \in 1..Len(v.e) : v.e[i][1] = K_toString
    [] v.t = "array" ->
         \E i \in 1..Len(v.a) : ~Nullish(v.a[i]) /\ ToPrimitiveThrows(v.a[i])
    [] OTHER -> FALSE

RECURSIVE ToStringJS(_)
RECURSIVE Joined(_)
\* the items joined by commas: null and undefined give the empty string
Joined(items) ==
  IF items = <<>> THEN <<>>
  ELSE LET h == IF Nullish(Head(items)) THEN <<>> ELSE ToStringJS(Head(items))
       IN IF Len(items) = 1 THEN h ELSE h \o <<",">> \o Joined(Tail(items))

\* Array.prototype.join(",")
JoinItems(items) == IF ToPrimitiveThrows(Arr(items)) THEN TypeError ELSE Joined(items)

\* String(v): the characters, or TypeError
ToStringJS(v) ==
  CASE ToPrimitiveThrows(v) -> TypeError
    [] v.t = "string" -> v.s
    [] v.t = "number" -> NumberToString(v)
    [] v.t = "NaN" -> <<"N","a","N">>
    [] v.t = "Infinity" -> <<"I","n","f","i","n","i","t","y">>
    [] v.t = "-Infinity" -> <<"-","I","n","f","i","n","i","t","y">>
    [] v.t = "boolean" -> IF v.b THEN <<"t","r","u","e">> ELSE <<"f","a","l","s","e">>
    [] v.t = "null" -> <<"n","u","l","l">>
    [] v.t = "undefined" -> <<"u","n","d","e","f","i","n","e","d">>
    [] v.t = "array" -> JoinItems(v.a)
    [] OTHER -> <<"[","o","b","j","e","c","t"," ","O","b","j","e","c","t","]">>

AllDigits(s) == \A i \in 1..Len(s) : IsDigit(s[i])
DigitVals(s) == [i \in 1..Len(s) |-> DigitVal(s[i])]

HexChars == <<"0","1","2","3","4","5","6","7","8","9","a","b","c","d","e","f">>
\* the value of a digit of the given radix, -1 for any other character
RadixVal(c, radix) ==
  IF \E i \in 1..radix : HexChars[i] = LowerChar(c)
  THEN (CHOOSE i \in 1..radix : HexChars[i] = LowerChar(c)) - 1 ELSE -1

\* the digits acc and the characters still to read: one character more of a
\* radix of 2^bits, and n characters more
RadixStep(s, bits) ==
  [acc |-> Add(Times2(s.acc, bits), NatDigits(RadixVal(Head(s.rest), 2 ^ bits))),
   rest |-> Tail(s.rest)]
RECURSIVE RadixLoop(_, _, _)
RadixLoop(s, bits, n) ==
  IF n = 0 \/ s.rest = <<>> THEN s
  ELSE IF n = 1 THEN RadixStep(s, bits)
  ELSE RadixLoop(RadixLoop(s, bits, n \div 2), bits, n - n \div 2)
RadixDigits(s, bits) == RadixLoop([acc |-> <<>>, rest |-> s], bits, Len(s)).acc

\* 0x, 0o and 0b literals: the digits after the prefix in the given radix
RadixValue(s, bits) ==
  IF s # <<>> /\ \A i \in 1..Len(s) : RadixVal(s[i], 2 ^ bits) >= 0
  THEN Canonical(Normal(FALSE, RadixDigits(s, bits), 0)) ELSE NaN

\* the value of the digits of an exponent, capped at 2 * 10^9: beyond it the
\* number is infinite or zero unless the literal has about 2 * 10^9 digits,
\* more characters than a string of the engine holds (below 2^30)
CappedNat(ds) ==
  IF Len(ds) > 10 \/ (Len(ds) = 10 /\ ~DigitsLess(ds, <<2,0,0,0,0,0,0,0,0,0>>))
  THEN 2000000000
  ELSE DigitsToNat(ds)
ExponentValue(s) == CappedNat(StripLeadingZeros(DigitVals(s)))

\* the exponent an exponent part gives: ex is what follows the e, 0 for none
SignedExponent(ex) ==
  IF ex = <<>> THEN 0
  ELSE IF Head(ex) = "-" THEN 0 - ExponentValue(Tail(ex))
  ELSE IF Head(ex) = "+" THEN ExponentValue(Tail(ex))
  ELSE ExponentValue(ex)

\* [+-]digits
IsExponent(ex) ==
  IF ex # <<>> /\ Head(ex) \in {"+", "-"} THEN Tail(ex) # <<>> /\ AllDigits(Tail(ex))
  ELSE ex # <<>> /\ AllDigits(ex)

\* the digits ip before and fp after the decimal point, times ten to the e
DecimalValue(ip, fp, e) ==
  IF ~AllDigits(ip) \/ ~AllDigits(fp) \/ Len(ip) + Len(fp) = 0 THEN NaN
  ELSE Canonical(Normal(FALSE, DigitVals(ip \o fp), e - Len(fp)))

\* the mantissa with its decimal point at p (past the end for none)
Mantissa(mant, p, e) ==
  DecimalValue(SubSeq(mant, 1, p - 1), SubSeq(mant, p + 1, Len(mant)), e)

\* the position of the first character of s that is in cs, Len(s) + 1 for none
FirstOf(s, cs) ==
  IF \A i \in 1..Len(s) : s[i] \notin cs THEN Len(s) + 1
  ELSE CHOOSE i \in 1..Len(s) : s[i] \in cs /\ \A j \in 1..(i - 1) : s[j] \notin cs

\* the literal cut at its exponent mark (past the end for none)
CutLiteral(s, cut) ==
  IF cut <= Len(s) /\ ~IsExponent(SubSeq(s, cut + 1, Len(s))) THEN NaN
  ELSE Mantissa(SubSeq(s, 1, cut - 1), FirstOf(SubSeq(s, 1, cut - 1), {"."}),
                SignedExponent(SubSeq(s, cut + 1, Len(s))))

\* StrUnsignedDecimalLiteral: digits, digits.digits, digits. or .digits, each
\* with an optional exponent part e[+-]digits
UnsignedValue(s) == CutLiteral(s, FirstOf(s, {"e", "E"}))

Negate(v) ==
  CASE v.t = "number" -> Normal(~v.neg, v.m, v.x)
    [] v.t = "Infinity" -> NegInf
    [] v.t = "-Infinity" -> PosInf
    [] OTHER -> v

\* the magnitude of a literal without its sign
Magnitude(body) ==
  IF body = <<"I","n","f","i","n","i","t","y">> THEN PosInf ELSE UnsignedValue(body)

\* the bits of a digit of a 0x, 0o or 0b literal, 0 for any other text
RadixOf(s) ==
  IF Len(s) >= 2 /\ s[1] = "0"
  THEN CASE s[2] \in {"x", "X"} -> 4
         [] s[2] \in {"o", "O"} -> 3
         [] s[2] \in {"b", "B"} -> 1
         [] OTHER -> 0
  ELSE 0

\* StringNumericLiteral on a text without surrounding white space: the empty
\* text is 0; a radix literal takes no sign
NumericLiteral(s) ==
  IF s = <<>> THEN Zero
  ELSE IF RadixOf(s) # 0 THEN RadixValue(SubSeq(s, 3, Len(s)), RadixOf(s))
  ELSE IF Head(s) = "-" THEN Negate(Magnitude(Tail(s)))
  ELSE Magnitude(IF Head(s) = "+" THEN Tail(s) ELSE s)

\* StringToNumber
StringToNumber(str) == NumericLiteral(trim(str))

\* Number(v): the number, or TypeError
ToNumber(v) ==
  CASE ToPrimitiveThrows(v) -> TypeError
    [] v.t \in {"number", "NaN", "Infinity", "-Infinity"} -> v
    [] v.t = "undefined" -> NaN
    [] v.t = "null" -> Zero
    [] v.t = "boolean" -> IF v.b THEN Whole(1) ELSE Zero
    [] v.t = "string" -> StringToNumber(v.s)
    [] v.t = "array" -> StringToNumber(ToStringJS(v))
    [] OTHER -> NaN

SlugChars == Range(LowerLetters) \cup Range(Digits)

\* .replace(/[^a-z0-9]+/g, "-"): a character outside a-z0-9 becomes a hyphen
\* when it starts a run of them and is dropped (<<>>) inside one
Replaced(s, i) ==
  IF s[i] \in SlugChars THEN <<s[i]>>
  ELSE IF i > 1 /\ s[i - 1] \notin SlugChars THEN <<>>
  ELSE <<"-">>
Kept(s) == {i \in 1..Len(s) : Replaced(s, i) # <<>>}
ReplaceRuns(s) ==
  [n \in 1..Cardinality(Kept(s)) |->
     Replaced(s, CHOOSE i \in Kept(s) : Cardinality({j \in Kept(s) : j <= i}) = n)[1]]

\* .replace(/(^-|-$)+/g, "") on a string without adjacent hyphens
StripHyphens(s) ==
  LET a == IF s # <<>> /\ Head(s) = "-" THEN Tail(s) ELSE s
  IN IF a # <<>> /\ a[Len(a)] = "-" THEN SubSeq(a, 1, Len(a) - 1) ELSE a

slugify(input) == StripHyphens(ReplaceRuns(toLowerCase(trim(input))))

\* ------------------------------------------------------------------------
\* Key spellings
\* ------------------------------------------------------------------------
K_ID == <<"I", "D">>
K_Asset_ID == <<"A", "s", "s", "e", "t", " ", "I", "D">>
K_assetId == <<"a", "s", "s", "e", "t", "I", "d">>
K_asset_id == <<"a", "s", "s", "e", "t", "_", "i", "d">>
K_Asset_Name == <<"A", "s", "s", "e", "t", " ", "N", "a", "m", "e">>
K_assetName == <<"a", "s", "s", "e", "t", "N", "a", "m", "e">>
K_asset == <<"a", "s", "s", "e", "t">>
K_asset_name == <<"a", "s", "s", "e", "t", "_", "n", "a", "m", "e">>
K_Asset_Status == <<"A", "s", "s", "e", "t", " ", "S", "t", "a", "t", "u", "s">>
K_assetStatus == <<"a", "s", "s", "e", "t", "S", "t", "a", "t", "u", "s">>
K_asset_status == <<"a", "s", "s", "e", "t", "_", "s", "t", "a", "t", "u", "s">>
K_GPS_Tracker_Name == <<"G", "P", "S", " ", "T", "r", "a", "c", "k", "e", "r", " ", "N", "a", "m", "e">>
K_trackerName == <<"t", "r", "a", "c", "k", "e", "r", "N", "a", "m", "e">>
K_tracker == <<"t", "r", "a", "c", "k", "e", "r">>
K_deviceName == <<"d", "e", "v", "i", "c", "e", "N", "a", "m", "e">>
K_trackerId == <<"t", "r", "a", "c", "k", "e", "r", "I", "d">>
K_Tracker_ID == <<"T", "r", "a", "c", "k", "e", "r", " ", "I", "D">>
K_deviceId == <<"d", "e", "v", "i", "c", "e", "I", "d">>
K_GPS_Tracker_Status == <<"G", "P", "S", " ", "T", "r", "a", "c", "k", "e", "r", " ", "S", "t", "a", "t", "u", "s">>
K_trackerStatus == <<"t", "r", "a", "c", "k", "e", "r", "S", "t", "a", "t", "u", "s">>
K_GPS_Tracker_Battery == <<"G", "P", "S", " ", "T", "r", "a", "c", "k", "e", "r", " ", "B", "a", "t", "t", "e", "r", "y">>
K_battery == <<"b", "a", "t", "t", "e", "r", "y">>
K_batteryLevel == <<"b", "a", "t", "t", "e", "r", "y", "L", "e", "v", "e", "l">>
K_Latitude == <<"L", "a", "t", "i", "t", "u", "d", "e">>
K_latitude == <<"l", "a", "t", "i", "t", "u", "d", "e">>
K_lat == <<"l", "a", "t">>
K_Longitude == <<"L", "o", "n", "g", "i", "t", "u", "d", "e">>
K_longitude == <<"l", "o", "n", "g", "i", "t", "u", "d", "e">>
K_lng == <<"l", "n", "g">>
K_long == <<"l", "o", "n", "g">>
K_lon == <<"l", "o", "n">>
K_Tracking_Status == <<"T", "r", "a", "c", "k", "i", "n", "g", " ", "S", "t", "a", "t", "u", "s">>
K_linkStatus == <<"l", "i", "n", "k", "S", "t", "a", "t", "u", "s">>
K_status == <<"s", "t", "a", "t", "u", "s">>
K_timestamp == <<"t", "i", "m", "e", "s", "t", "a", "m", "p">>
K_Output == <<"O", "u", "t", "p", "u", "t">>
K_name == <<"n", "a", "m", "e">>
K_id == <<"i", "d">>
K_description == <<"d", "e", "s", "c", "r", "i", "p", "t", "i", "o", "n">>
K_type == <<"t", "y", "p", "e">>
K_baseLocation == <<"b", "a", "s", "e", "L", "o", "c", "a", "t", "i", "o", "n">>
K_model == <<"m", "o", "d", "e", "l">>
K_receivedAt == <<"r", "e", "c", "e", "i", "v", "e", "d", "A", "t">>

\* String literals of the source and of the sample payloads
S_Asset == <<"A", "s", "s", "e", "t">>
S_asset == <<"a", "s", "s", "e", "t">>
S_Tracker == <<"T", "r", "a", "c", "k", "e", "r">>
S_tracker == <<"t", "r", "a", "c", "k", "e", "r">>
S_Movable == <<"M", "o", "v", "a", "b", "l", "e">>
S_Stationery == <<"S", "t", "a", "t", "i", "o", "n", "e", "r", "y">>
S_Active == <<"A", "c", "t", "i", "v", "e">>
S_Inactive == <<"I", "n", "a", "c", "t", "i", "v", "e">>
S_Maintenance == <<"M", "a", "i", "n", "t", "e", "n", "a", "n", "c", "e">>
S_Missing == <<"M", "i", "s", "s", "i", "n", "g">>

\* Identifiers, names and other strings of the sample payloads and stores
S_a1 == <<"a", "1">>
S_a2 == <<"a", "2">>
S_t1 == <<"t", "1">>
S_t2 == <<"t", "2">>
S_A1 == <<"A", "1">>
S_T1 == <<"T", "1">>
S_X == <<"X">>
S_Y == <<"Y">>
S_G1 == <<"G", "1">>
S_G2 == <<"G", "2">>
S_D == <<"D">>
S_B == <<"B">>
S_M == <<"M">>
S_Z == <<"Z">>
S_Q == <<"Q">>
S_Truck == <<"T", "r", "u", "c", "k">>
S_GPS1 == <<"G", "P", "S", "1">>
S_ping == <<"p", "i", "n", "g">>
S_DeliveryTruck1 == <<"D", "e", "l", "i", "v", "e", "r", "y", " ", "T", "r", "u", "c", "k", " ", "#", "1">>
S_delivery_truck_1 == <<"d", "e", "l", "i", "v", "e", "r", "y", "-", "t", "r", "u", "c", "k", "-", "1">>
S_7_5 == <<"7", ".", "5">>
S_8 == <<"8">>
S_IsoDate == <<"2", "0", "2", "4", "-", "0", "1", "-", "0", "1">>
S_a1_padded == <<" ", " ", "a", "1", " ">>
S_blank == <<" ", "\f", "\t">>
S_abc == <<"a", "b", "c">>
S_not_a_number == <<"n", "o", "t", "-", "a", "-", "n", "u", "m", "b", "e", "r">>
S_GPS_Unit_2 == <<"G", "P", "S", " ", "U", "n", "i", "t", " ", "2">>
S_7 == <<"7">>
S_hashes == <<"#", "#", "#">>
S_t1_padded == <<" ", "t", "1", " ">>
S_constructor == <<"c", "o", "n", "s", "t", "r", "u", "c", "t", "o", "r">>
S_0 == <<"0">>
S_2000000000 == <<"2", "0", "0", "0", "0", "0", "0", "0", "0", "0">>
S_2 == <<"2">>
S_1e3 == <<"1", "e", "3">>
S_12_9716 == <<"1", "2", ".", "9", "7", "1", "6">>
S_1e2 == <<"1", "e", "2">>

\* The names an object, an array, a string or a number inherits from its prototype
\* (ES2023 with Annex B)
K___proto__ == <<"_", "_", "p", "r", "o", "t", "o", "_", "_">>
K_length == <<"l", "e", "n", "g", "t", "h">>
ObjectPrototypeNames ==
  {<<"c", "o", "n", "s", "t", "r", "u", "c", "t", "o", "r">>,
   <<"h", "a", "s", "O", "w", "n", "P", "r", "o", "p", "e", "r", "t", "y">>,
   <<"i", "s", "P", "r", "o", "t", "o", "t", "y", "p", "e", "O", "f">>,
   <<"p", "r", "o", "p", "e", "r", "t", "y", "I", "s", "E", "n", "u", "m", "e", "r", "a", "b", "l", "e">>,
   <<"t", "o", "L", "o", "c", "a", "l", "e", "S", "t", "r", "i", "n", "g">>,
   <<"t", "o", "S", "t", "r", "i", "n", "g">>,
   <<"v", "a", "l", "u", "e", "O", "f">>,
   <<"_", "_", "d", "e", "f", "i", "n", "e", "G", "e", "t", "t", "e", "r", "_", "_">>,
   <<"_", "_", "d", "e", "f", "i", "n", "e", "S", "e", "t", "t", "e", "r", "_", "_">>,
   <<"_", "_", "l", "o", "o", "k", "u", "p", "G", "e", "t", "t", "e", "r", "_", "_">>,
   <<"_", "_", "l", "o", "o", "k", "u", "p", "S", "e", "t", "t", "e", "r", "_", "_">>,
   <<"_", "_", "p", "r", "o", "t", "o", "_", "_">>}
ArrayPrototypeNames ==
  {<<"a", "t">>,
   <<"c", "o", "n", "c", "a", "t">>,
   <<"c", "o", "p", "y", "W", "i", "t", "h", "i", "n">>,
   <<"e", "n", "t", "r", "i", "e", "s">>,
   <<"e", "v", "e", "r", "y">>,
   <<"f", "i", "l", "l">>,
   <<"f", "i", "l", "t", "e", "r">>,
   <<"f", "i", "n", "d">>,
   <<"f", "i", "n", "d", "I", "n", "d", "e", "x">>,
   <<"f", "i", "n", "d", "L", "a", "s", "t">>,
   <<"f", "i", "n", "d", "L", "a", "s", "t", "I", "n", "d", "e", "x">>,
   <<"f", "l", "a", "t">>,
   <<"f", "l", "a", "t", "M", "a", "p">>,
   <<"f", "o", "r", "E", "a", "c", "h">>,
   <<"i", "n", "c", "l", "u", "d", "e", "s">>,
   <<"i", "n", "d", "e", "x", "O", "f">>,
   <<"j", "o", "i", "n">>,
   <<"k", "e", "y", "s">>,
   <<"l", "a", "s", "t", "I", "n", "d", "e", "x", "O", "f">>,
   <<"m", "a", "p">>,
   <<"p", "o", "p">>,
   <<"p", "u", "s", "h">>,
   <<"r", "e", "d", "u", "c", "e">>,
   <<"r", "e", "d", "u", "c", "e", "R", "i", "g", "h", "t">>,
   <<"r", "e", "v", "e", "r", "s", "e">>,
   <<"s", "h", "i", "f", "t">>,
   <<"s", "l", "i", "c", "e">>,
   <<"s", "o", "m", "e">>,
   <<"s", "o", "r", "t">>,
   <<"s", "p", "l", "i", "c", "e">>,
   <<"t", "o", "R", "e", "v", "e", "r", "s", "e", "d">>,
   <<"t", "o", "S", "o", "r", "t", "e", "d">>,
   <<"t", "o", "S", "p", "l", "i", "c", "e", "d">>,
   <<"u", "n", "s", "h", "i", "f", "t">>,
   <<"v", "a", "l", "u", "e", "s">>,
   <<"w", "i", "t", "h">>}
StringPrototypeNames ==
  {<<"a", "n", "c", "h", "o", "r">>,
   <<"a", "t">>,
   <<"b", "i", "g">>,
   <<"b", "l", "i", "n", "k">>,
   <<"b", "o", "l", "d">>,
   <<"c", "h", "a", "r", "A", "t">>,
   <<"c", "h", "a", "r", "C", "o", "d", "e", "A", "t">>,
   <<"c", "o", "d", "e", "P", "o", "i", "n", "t", "A", "t">>,
   <<"c", "o", "n", "c", "a", "t">>,
   <<"e", "n", "d", "s", "W", "i", "t", "h">>,
   <<"f", "i", "x", "e", "d">>,
   <<"f", "o", "n", "t", "c", "o", "l", "o", "r">>,
   <<"f", "o", "n", "t", "s", "i", "z", "e">>,
   <<"i", "n", "c", "l", "u", "d", "e", "s">>,
   <<"i", "n", "d", "e", "x", "O", "f">>,
   <<"i", "s", "W", "e", "l", "l", "F", "o", "r", "m", "e", "d">>,
   <<"i", "t", "a", "l", "i", "c", "s">>,
   <<"l", "a", "s", "t", "I", "n", "d", "e", "x", "O", "f">>,
   <<"l", "i", "n", "k">>,
   <<"l", "o", "c", "a", "l", "e", "C", "o", "m", "p", "a", "r", "e">>,
   <<"m", "a", "t", "c", "h">>,
   <<"m", "a", "t", "c", "h", "A", "l", "l">>,
   <<"n", "o", "r", "m", "a", "l", "i", "z", "e">>,
   <<"p", "a", "d", "E", "n", "d">>,
   <<"p", "a", "d", "S", "t", "a", "r", "t">>,
   <<"r", "e", "p", "e", "a", "t">>,
   <<"r", "e", "p", "l", "a", "c", "e">>,
   <<"r", "e", "p", "l", "a", "c", "e", "A", "l", "l">>,
   <<"s", "e", "a", "r", "c", "h">>,
   <<"s", "l", "i", "c", "e">>,
   <<"s", "m", "a", "l", "l">>,
   <<"s", "p", "l", "i", "t">>,
   <<"s", "t", "a", "r", "t", "s", "W", "i", "t", "h">>,
   <<"s", "t", "r", "i", "k", "e">>,
   <<"s", "u", "b">>,
   <<"s", "u", "b", "s", "t", "r">>,
   <<"s", "u", "b", "s", "t", "r", "i", "n", "g">>,
   <<"s", "u", "p">>,
   <<"t", "o", "L", "o", "c", "a", "l", "e", "L", "o", "w", "e", "r", "C", "a", "s", "e">>,
   <<"t", "o", "L", "o", "c", "a", "l", "e", "U", "p", "p", "e", "r", "C", "a", "s", "e">>,
   <<"t", "o", "L", "o", "w", "e", "r", "C", "a", "s", "e">>,
   <<"t", "o", "U", "p", "p", "e", "r", "C", "a", "s", "e">>,
   <<"t", "o", "W", "e", "l", "l", "F", "o", "r", "m", "e", "d">>,
   <<"t", "r", "i", "m">>,
   <<"t", "r", "i", "m", "E", "n", "d">>,
   <<"t", "r", "i", "m", "L", "e", "f", "t">>,
   <<"t", "r", "i", "m", "R", "i", "g", "h", "t">>,
   <<"t", "r", "i", "m", "S", "t", "a", "r", "t">>}
NumberPrototypeNames ==
  {<<"t", "o", "E", "x", "p", "o", "n", "e", "n", "t", "i", "a", "l">>,
   <<"t", "o", "F", "i", "x", "e", "d">>,
   <<"t", "o", "P", "r", "e", "c", "i", "s", "i", "o", "n">>}

\* ------------------------------------------------------------------------
\* Objects
\* ------------------------------------------------------------------------
Min(S) == CHOOSE x \in S : \A y \in S : x <= y

KeyIndex(obj, key) ==
  LET hits == {i \in 1..Len(obj.e) : obj.e[i][1] = key}
  IN IF hits = {} THEN 0 ELSE Min(hits)

\* key in obj, for an own property
HasKey(obj, key) == obj.t = "object" /\ KeyIndex(obj, key) # 0

\* v[key] on a non-nullish value (a primitive or an array has none of the names used)
Prop(v, key) ==
  IF HasKey(v, key) THEN v.e[KeyIndex(v, key)][2] ELSE Undefined

\* v?.key
OptProp(v, key) == IF Nullish(v) THEN Undefined ELSE Prop(v, key)

\* an array index: the canonical numeral of an integer from 0 to 2^32 - 2
MaxArrayIndex == <<"4","2","9","4","9","6","7","2","9","4">>

\* a < b for numerals without leading zeros
NumeralLess(a, b) ==
  IF Len(a) # Len(b) THEN Len(a) < Len(b)
  ELSE \E i \in 1..Len(a) :
         /\ DigitVal(a[i]) < DigitVal(b[i])
         /\ \A j \in 1..(i - 1) : a[j] = b[j]

IsArrayIndex(key) ==
  /\ key # <<>>
  /\ AllDigits(key)
  /\ (Len(key) = 1 \/ key[1] # "0")
  /\ ~NumeralLess(MaxArrayIndex, key)

\* the entries of an object with the new entry en in its place: an array
\* index goes after the smaller indices and before every other key, any
\* other key goes last
InsertAfter(entries, en, n) ==
  SubSeq(entries, 1, n) \o <<en>> \o SubSeq(entries, n + 1, Len(entries))
InsertEntry(entries, en) ==
  IF ~IsArrayIndex(en[1]) THEN Append(entries, en)
  ELSE InsertAfter(entries, en,
                   Cardinality({i \in 1..Len(entries) :
                                  /\ IsArrayIndex(entries[i][1])
                                  /\ NumeralLess(entries[i][1], en[1])}))

\* the own entries in the order of OrdinaryOwnPropertyKeys: the array indices
\* in ascending order, then the other keys in the order they were added
RECURSIVE InsertAll(_, _)
InsertAll(done, rest) ==
  IF rest = <<>> THEN done ELSE InsertAll(InsertEntry(done, Head(rest)), Tail(rest))
OrderKeys(entries) == InsertAll(<<>>, entries)

\* obj[key] = val as an own data property: an existing key keeps its place
SetProp(obj, key, val) ==
  IF HasKey(obj, key)
  THEN Obj([obj.e EXCEPT ![KeyIndex(obj, key)] = <<key, val>>])
  ELSE Obj(InsertEntry(obj.e, <<key, val>>))

\* { ...a, ...b }
RECURSIVE Spread(_, _)
Spread(a, b) ==
  IF b.e = <<>> THEN a
  ELSE Spread(SetProp(a, Head(b.e)[1], Head(b.e)[2]), Obj(Tail(b.e)))

Keys(obj) == {obj.e[i][1] : i \in 1..Len(obj.e)}

\* JSON.parse(JSON.stringify(v)): a non-finite number becomes null, an
\* undefined property is dropped, an undefined array item (or a hole)
\* becomes null, and the parsed object lists its array-index keys first
RECURSIVE JsonRoundTrip(_)
RoundTripEntries(kept) ==
  Obj([i \in 1..Len(kept) |-> <<kept[i][1], JsonRoundTrip(kept[i][2])>>])
JsonRoundTrip(v) ==
  CASE v.t \in {"NaN", "Infinity", "-Infinity"} -> Null
    [] v.t = "array" ->
         Arr([i \in 1..Len(v.a) |->
                IF v.a[i].t = "undefined" THEN Null ELSE JsonRoundTrip(v.a[i])])
    [] v.t = "object" ->
         RoundTripEntries(OrderKeys(SelectSeq(v.e, LAMBDA en : en[2].t # "undefined")))
    [] OTHER -> v

\* the characters JSON.stringify writes with a short escape (backspace is
\* named by its code point), and the other control characters, which it
\* writes as \uXXXX
ShortEscapes == {"\"", "\\", "\t", "\n", "\r", "\f", "U+0008"}
ControlChars ==
  {"U+0000", "U+0001", "U+0002", "U+0003", "U+0004", "U+0005", "U+0006", "U+0007", "",
   "U+000E", "U+000F", "U+0010", "U+0011", "U+0012", "U+0013", "U+0014", "U+0015", "U+0016",
   "U+0017", "U+0018", "U+0019", "U+001A", "U+001B", "U+001C", "U+001D", "U+001E", "U+001F"}

\* the sum of the numbers of s, split in halves
RECURSIVE Total(_)
Total(s) ==
  IF s = <<>> THEN 0
  ELSE IF Len(s) = 1 THEN s[1]
  ELSE Total(SubSeq(s, 1, Len(s) \div 2)) + Total(SubSeq(s, Len(s) \div 2 + 1, Len(s)))

\* the length of the JSON text of the string s, quotes included
QuotedLength(s) ==
  2 + Total([i \in 1..Len(s) |->
               IF s[i] \in ShortEscapes THEN 2 ELSE IF s[i] \in ControlChars THEN 6 ELSE 1])

\* the length of JSON.stringify(v): an array item that has no JSON text is
\* written null, a property that has none is left out
RECURSIVE JsonLength(_)
JsonLength(v) ==
  CASE v.t = "string" -> QuotedLength(v.s)
    [] v.t = "number" -> Len(NumberToString(v))
    [] v.t = "boolean" -> IF v.b THEN 4 ELSE 5
    [] v.t = "array" ->
         2 + Total([i \in 1..Len(v.a) |-> JsonLength(v.a[i])])
           + (IF v.a = <<>> THEN 0 ELSE Len(v.a) - 1)
    [] v.t = "object" ->
         LET kept == SelectSeq(v.e, LAMBDA en : en[2].t \notin {"undefined", "function"})
         IN 2 + Total([i \in 1..Len(kept) |->
                         QuotedLength(kept[i][1]) + 1 + JsonLength(kept[i][2])])
              + (IF kept = <<>> THEN 0 ELSE Len(kept) - 1)
    [] OTHER -> 4

\* the longest string of the engine (V8 on 64 bits): JSON.stringify throws a
\* RangeError when its text would be longer
MaxStringLength == 2^29 - 24

\* in place of an array with holes that is never written out: one whose JSON
\* text is longer than MaxStringLength
TooLong == [t |-> "toolong"]

\* ------------------------------------------------------------------------
\* localStorage
\* ------------------------------------------------------------------------
LS_ASSETS == "dc.assets"
LS_TRACKERS == "dc.trackers"
LS_LINKS == "dc.links"
LS_TRACKER_POS == "dc.trackerPositions"
LS_TRACKING_LOGS == "dc.trackingLogs"
LSKeys == {LS_ASSETS, LS_TRACKERS, LS_LINKS, LS_TRACKER_POS, LS_TRACKING_LOGS}

\* what a key holds: no item, the empty text, another text JSON.parse rejects,
\* or the value its text parses to
NoItem == [t |-> "noitem"]
EmptyText == [t |-> "emptytext"]
BadText == [t |-> "badtext"]

\* a failing localStorage call of one reconciliation
GetFails(key) == <<"getItem", key>>
SetFails(key) == <<"setItem", key>>

readJSON(ls, key, fallback, faults) ==
  IF GetFails(key) \in faults THEN fallback
  ELSE IF ls[key] \in {NoItem, EmptyText} THEN fallback
  ELSE IF ls[key] = BadText THEN fallback
  ELSE Coalesce(ls[key], fallback)

\* writeJSON without its own try/catch: a failing setItem propagates
writeJSONRethrows(ls, key, value, faults) ==
  IF value.t = "toolong" THEN [ls |-> ls, thrown |-> FALSE]
  ELSE IF SetFails(key) \in faults THEN [ls |-> ls, thrown |-> TRUE]
  ELSE [ls |-> [ls EXCEPT ![key] = JsonRoundTrip(value)], thrown |-> FALSE]
\* try { localStorage.setItem(key, JSON.stringify(value)) } catch {}: the store
\* it leaves, and whether an exception leaves writeJSON.  JSON.stringify
\* throws on a value whose text is too long, before setItem is called.
writeJSON(ls, key, value, faults) ==
  IF value.t = "toolong" THEN [ls |-> ls, thrown |-> FALSE]
  ELSE IF SetFails(key) \in faults THEN [ls |-> ls, thrown |-> FALSE]
  ELSE [ls |-> [ls EXCEPT ![key] = JsonRoundTrip(value)], thrown |-> FALSE]

\* ------------------------------------------------------------------------
\* Field resolution
\* ------------------------------------------------------------------------
get(obj, key) ==
  IF ~Truthy(obj) \/ obj.t \notin {"object", "array"} THEN Undefined
  ELSE IF obj.t = "array" THEN Undefined
  ELSE IF HasKey(obj, key) THEN Prop(obj, key)
  ELSE LET target == toLowerCase(key)
           hits == {i \in 1..Len(obj.e) : toLowerCase(obj.e[i][1]) = target}
       IN IF hits = {} THEN Undefined ELSE obj.e[Min(hits)][2]

\* a ?? b ?? c ?? ...
RECURSIVE CoalesceAll(_)
CoalesceAll(vs) ==
  IF Len(vs) = 1 THEN vs[1]
  ELSE IF Nullish(Head(vs)) THEN CoalesceAll(Tail(vs)) ELSE Head(vs)

resolveAssetFields(p) ==
  [id |-> CoalesceAll(<<get(p, K_ID), get(p, K_Asset_ID), get(p, K_assetId),
                        get(p, K_asset_id)>>),
   name |-> CoalesceAll(<<get(p, K_Asset_Name), get(p, K_assetName),
                          OptProp(get(p, K_asset), K_name), get(p, K_asset_name)>>),
   status |-> CoalesceAll(<<get(p, K_Asset_Status), get(p, K_assetStatus),
                            get(p, K_asset_status)>>)]

resolveTrackerFields(p) ==
  [name |-> CoalesceAll(<<get(p, K_GPS_Tracker_Name), get(p, K_trackerName),
                          OptProp(get(p, K_tracker), K_name), get(p, K_deviceName)>>),
   id |-> CoalesceAll(<<get(p, K_trackerId), get(p, K_Tracker_ID), get(p, K_deviceId),
                        OptProp(get(p, K_tracker), K_id)>>),
   status |-> CoalesceAll(<<get(p, K_GPS_Tracker_Status), get(p, K_trackerStatus)>>),
   battery |-> CoalesceAll(<<get(p, K_GPS_Tracker_Battery), get(p, K_battery),
                             get(p, K_batteryLevel)>>)]

\* line 248: the object returned, unless Number(lat) or Number(lng) threw
TrackingFields(lat, lng, trackingStatus, timestamp) ==
  IF IsError(lat) \/ IsError(lng) THEN TypeError
  ELSE [lat |-> lat, lng |-> lng, trackingStatus |-> trackingStatus, timestamp |-> timestamp]

\* dateNow is the value of Date.now() at this call
resolveTrackingFields(p, dateNow) ==
  TrackingFields(
    ToNumber(CoalesceAll(<<get(p, K_Latitude), get(p, K_latitude), get(p, K_lat)>>)),
    ToNumber(CoalesceAll(<<get(p, K_Longitude), get(p, K_longitude), get(p, K_lng),
                           get(p, K_long), get(p, K_lon)>>)),
    CoalesceAll(<<get(p, K_Tracking_Status), get(p, K_linkStatus), get(p, K_status)>>),
    Coalesce(get(p, K_timestamp), Whole(dateNow)))

\* the digits before the decimal point
IntegerPart(v) == IF Top(v) <= 0 THEN <<>> ELSE SubSeq(v.m, 1, Top(v))

\* Math.round(v): the nearest integer, a half goes towards +Infinity
\* the integer next to v in magnitude when up, else v cut to an integer
Toward(v, up) == Normal(v.neg, IF up THEN Incr(IntegerPart(v)) ELSE IntegerPart(v), 0)

\* v, which has a fraction, with first its first fraction digit, lies on a
\* half when that digit is its last one and a 5
RoundFraction(v, first, half) ==
  Toward(v, IF v.neg THEN first > 5 \/ (first = 5 /\ ~half) ELSE first >= 5)

Round(v) ==
  IF v.x >= 0 THEN v
  ELSE IF Top(v) < 0 THEN Zero
  ELSE RoundFraction(v, v.m[Top(v) + 1], v.m[Top(v) + 1] = 5 /\ Len(v.m) = Top(v) + 1)

\* Math.round of a double: the bits below one are shifted out, the half bit
\* rounds away from zero above zero and, with a lower bit set, below zero
RoundBits(neg, s) ==
  Normal(neg, IF s.rb /\ (~neg \/ s.st) THEN Incr(s.q) ELSE s.q, 0)
RoundDouble(neg, d) ==
  IF d.c # "finite" \/ d.e >= 0 THEN FromDouble(neg, d)
  ELSE RoundBits(neg, ShiftBy(Bits(d.q, d.e, FALSE), 0 - d.e))

\* the double product d * 100 = 25 * q * 2^(e + 2), rounded to 53 bits
Times100(d) == RoundEven(Narrow(Bits(Halve(Halve(Times10(d.q, 2))), d.e + 2, FALSE)))

\* Math.round(num * 100): the product is a double, which overflows to
\* -Infinity and falls next to a half where the decimal product lies on it;
\* below 0.001 it rounds to zero
RoundTimes100(v) ==
  IF v.m = <<>> \/ Top(v) <= -3 THEN Zero
  ELSE RoundDouble(v.neg, Times100(ToDouble(v.m, v.x)))

\* lines 198-201 on num = Number(v), which may have thrown
PercentOf(num) ==
  CASE num.t = "TypeError" -> TypeError
    [] num.t = "NaN" -> Null
    [] num.t = "-Infinity" -> NegInf
    [] num.t = "Infinity" -> Whole(100)
    [] OTHER -> IF LessEq(num, Whole(1)) THEN RoundTimes100(num)
                ELSE IF LessEq(num, Whole(100)) THEN Round(num)
                ELSE Whole(100)

toPercentBattery(v) == IF Nullish(v) THEN Null ELSE PercentOf(ToNumber(v))

\* pick(obj, keys): the listed properties whose value is not undefined
RECURSIVE pick(_, _)
pick(obj, keys) ==
  IF keys = <<>> THEN Obj(<<>>)
  ELSE LET rest == pick(obj, Tail(keys))
           k == Head(keys)
       IN IF Prop(obj, k) # Undefined
          THEN Obj(<<<<k, Prop(obj, k)>>>> \o rest.e) ELSE rest

\* the payload taken as it is, without the Output wrapper removed
UnwrapNothing(payload) == payload

\* the payload's wrapper: payload?.Output ?? payload
Unwrap(payload) == Coalesce(OptProp(payload, K_Output), payload)

\* lines 263-264: the explicit id verbatim, else the slug of a truthy name;
\* String(id) and String(name) may throw
DeriveId(f) ==
  IF ~Nullish(f.id) /\ ToPrimitiveThrows(f.id) THEN TypeError
  ELSE IF ~Nullish(f.id) /\ trim(ToStringJS(f.id)) # <<>> THEN Str(ToStringJS(f.id))
  ELSE IF Truthy(f.name) /\ ToPrimitiveThrows(f.name) THEN TypeError
  ELSE IF Truthy(f.name) THEN Str(slugify(ToStringJS(f.name)))
  ELSE Undefined

\* ------------------------------------------------------------------------
\* processTrackingWebhook
\* ------------------------------------------------------------------------
\* The outcome of the statements run so far: the store, the indexed elements
\* that Array.prototype holds (none as the page loads), whether an exception
\* has left the statements, and the keys writeJSON was called with, in call
\* order.  A statement after an exception does not run.
Start(ls, proto) == [ls |-> ls, proto |-> proto, thrown |-> FALSE, writes |-> <<>>]
Throw(r) == [r EXCEPT !.thrown = TRUE]
\* r followed by the call writeJSON(key, ...) whose outcome is w
Wrote(r, w, key) ==
  [r EXCEPT !.ls = w.ls, !.thrown = w.thrown, !.writes = Append(r.writes, key)]

\* items.findIndex((x) => x[key] === target), 0 for -1
FindIndex(items, key, target) ==
  LET hits == {i \in 1..Len(items) : OptProp(items[i], key) = target}
  IN IF hits = {} THEN 0 ELSE Min(hits)

\* the callback reads x[key] of a null item before a match is found: TypeError
FindIndexThrows(items, key, target) ==
  \E i \in 1..Len(items) :
    /\ Nullish(items[i])
    /\ \A j \in 1..(i - 1) : OptProp(items[j], key) # target

\* items[idx - 1], idx the result of FindIndex: null for none
AtIndex(items, idx) == IF idx > 0 THEN items[idx] ELSE Null

\* id ?? (baseId ?? slugify(String(name || "..."))) of lines 274 and 293
\* throws: the slug is computed and String(name) finds no primitive
SlugThrows(id, baseId, name) == Nullish(id) /\ Nullish(baseId) /\ ToPrimitiveThrows(name)

\* arr.slice(-n)
SliceLast(s, n) == IF Len(s) <= n THEN s ELSE SubSeq(s, Len(s) - n + 1, Len(s))

HISTORY_CAP == 500

\* UpsertAsset that takes the name from the payload or the default only
UpsertAssetDropsPriorName(r, assets, asset, assetId, faults) ==
  IF r.thrown THEN r
  ELSE IF ~(Truthy(assetId) \/ Truthy(asset.name)) THEN r
  ELSE IF assets.t # "array" THEN Throw(r)
  ELSE IF FindIndexThrows(assets.a, K_id, assetId) THEN Throw(r)
  ELSE IF SlugThrows(assetId, OptProp(AtIndex(assets.a, FindIndex(assets.a, K_id, assetId)),
                                      K_id), asset.name)
    THEN Throw(r)
  ELSE
    LET idx == FindIndex(assets.a, K_id, assetId)
        base == IF idx > 0 THEN assets.a[idx] ELSE Null
        next == Obj(<<
          <<K_id, Coalesce(assetId, Coalesce(OptProp(base, K_id),
                    Str(slugify(ToStringJS(OrElse(asset.name, Str(S_asset)))))))>>,
          <<K_name, Coalesce(asset.name, Str(S_Asset))>>,
          <<K_description, Coalesce(OptProp(base, K_description), Str(<<>>))>>,
          <<K_type, Coalesce(OptProp(base, K_type), Str(S_Movable))>>,
          <<K_baseLocation, Coalesce(OptProp(base, K_baseLocation), Str(<<>>))>>,
          <<K_status, CoalesceAll(<<asset.status, OptProp(base, K_status), Str(S_Active)>>)>> >>)
        updated == IF idx > 0 THEN [assets.a EXCEPT ![idx] = next]
                   ELSE Append(assets.a, next)
    IN Wrote(r, writeJSON(r.ls, LS_ASSETS, Arr(updated), faults), LS_ASSETS)

\* UpsertAsset that resets the description on a merge
UpsertAssetResetsDetails(r, assets, asset, assetId, faults) ==
  IF r.thrown THEN r
  ELSE IF ~(Truthy(assetId) \/ Truthy(asset.name)) THEN r
  ELSE IF assets.t # "array" THEN Throw(r)
  ELSE IF FindIndexThrows(assets.a, K_id, assetId) THEN Throw(r)
  ELSE IF SlugThrows(assetId, OptProp(AtIndex(assets.a, FindIndex(assets.a, K_id, assetId)),
                                      K_id), asset.name)
    THEN Throw(r)
  ELSE
    LET idx == FindIndex(assets.a, K_id, assetId)
        base == IF idx > 0 THEN assets.a[idx] ELSE Null
        next == Obj(<<
          <<K_id, Coalesce(assetId, Coalesce(OptProp(base, K_id),
                    Str(slugify(ToStringJS(OrElse(asset.name, Str(S_asset)))))))>>,
          <<K_name, CoalesceAll(<<asset.name, OptProp(base, K_name), Str(S_Asset)>>)>>,
          <<K_description, Str(<<>>)>>,
          <<K_type, Coalesce(OptProp(base, K_type), Str(S_Movable))>>,
          <<K_baseLocation, Coalesce(OptProp(base, K_baseLocation), Str(<<>>))>>,
          <<K_status, CoalesceAll(<<asset.status, OptProp(base, K_status), Str(S_Active)>>)>> >>)
        updated == IF idx > 0 THEN [assets.a EXCEPT ![idx] = next]
                   ELSE Append(assets.a, next)
    IN Wrote(r, writeJSON(r.ls, LS_ASSETS, Arr(updated), faults), LS_ASSETS)
\* lines 271-285
UpsertAsset(r, assets, asset, assetId, faults) ==
  IF r.thrown THEN r
  ELSE IF ~(Truthy(assetId) \/ Truthy(asset.name)) THEN r
  ELSE IF assets.t # "array" THEN Throw(r)
  ELSE IF FindIndexThrows(assets.a, K_id, assetId) THEN Throw(r)
  ELSE IF SlugThrows(assetId, OptProp(AtIndex(assets.a, FindIndex(assets.a, K_id, assetId)),
                                      K_id), asset.name)
    THEN Throw(r)
  ELSE
    LET idx == FindIndex(assets.a, K_id, assetId)
        base == IF idx > 0 THEN assets.a[idx] ELSE Null
        next == Obj(<<
          <<K_id, Coalesce(assetId, Coalesce(OptProp(base, K_id),
                    Str(slugify(ToStringJS(OrElse(asset.name, Str(S_asset)))))))>>,
          <<K_name, CoalesceAll(<<asset.name, OptProp(base, K_name), Str(S_Asset)>>)>>,
          <<K_description, Coalesce(OptProp(base, K_description), Str(<<>>))>>,
          <<K_type, Coalesce(OptProp(base, K_type), Str(S_Movable))>>,
          <<K_baseLocation, Coalesce(OptProp(base, K_baseLocation), Str(<<>>))>>,
          <<K_status, CoalesceAll(<<asset.status, OptProp(base, K_status), Str(S_Active)>>)>> >>)
        updated == IF idx > 0 THEN [assets.a EXCEPT ![idx] = next]
                   ELSE Append(assets.a, next)
    IN Wrote(r, writeJSON(r.ls, LS_ASSETS, Arr(updated), faults), LS_ASSETS)

\* UpsertTracker that merges the model of a fresh record as well
UpsertTrackerResetsModel(r, trackers, tracker, trackerId, faults) ==
  IF r.thrown THEN r
  ELSE IF ~(Truthy(trackerId) \/ Truthy(tracker.name)) THEN r
  ELSE IF trackers.t # "array" THEN Throw(r)
  ELSE IF trackers.a # <<>> /\ Nullish(trackerId) /\ ToPrimitiveThrows(tracker.name)
    THEN Throw(r)
  ELSE IF FindIndexThrows(trackers.a, K_id,
                          Coalesce(trackerId, Str(slugify(ToStringJS(tracker.name)))))
    THEN Throw(r)
  ELSE IF SlugThrows(trackerId, Undefined, tracker.name) THEN Throw(r)
  ELSE IF ~Nullish(tracker.battery) /\ ToPrimitiveThrows(tracker.battery) THEN Throw(r)
  ELSE
    LET idx == FindIndex(trackers.a, K_id,
                         Coalesce(trackerId, Str(slugify(ToStringJS(tracker.name)))))
        base == IF idx > 0 THEN trackers.a[idx] ELSE Null
        battery == toPercentBattery(tracker.battery)
        next == Obj(<<
          <<K_id, Coalesce(trackerId, Coalesce(OptProp(base, K_id),
                    Str(slugify(ToStringJS(OrElse(tracker.name, Str(S_tracker)))))))>>,
          <<K_name, CoalesceAll(<<tracker.name, OptProp(base, K_name), Str(S_Tracker)>>)>>,
          <<K_model, Str(<<>>)>>,
          <<K_batteryLevel, CoalesceAll(<<battery, OptProp(base, K_batteryLevel), Whole(0)>>)>>,
          <<K_status, CoalesceAll(<<tracker.status, OptProp(base, K_status), Str(S_Active)>>)>> >>)
        merged == Spread(IF base.t = "object" THEN base ELSE Obj(<<>>),
                         pick(next, <<K_name, K_model, K_batteryLevel, K_status>>))
        updated == IF idx > 0 THEN [trackers.a EXCEPT ![idx] = merged]
                   ELSE Append(trackers.a, next)
    IN Wrote(r, writeJSON(r.ls, LS_TRACKERS, Arr(updated), faults), LS_TRACKERS)

\* UpsertTracker with a full battery as the default of a new tracker
UpsertTrackerFullBattery(r, trackers, tracker, trackerId, faults) ==
  IF r.thrown THEN r
  ELSE IF ~(Truthy(trackerId) \/ Truthy(tracker.name)) THEN r
  ELSE IF trackers.t # "array" THEN Throw(r)
  ELSE IF trackers.a # <<>> /\ Nullish(trackerId) /\ ToPrimitiveThrows(tracker.name)
    THEN Throw(r)
  ELSE IF FindIndexThrows(trackers.a, K_id,
                          Coalesce(trackerId, Str(slugify(ToStringJS(tracker.name)))))
    THEN Throw(r)
  ELSE IF SlugThrows(trackerId, Undefined, tracker.name) THEN Throw(r)
  ELSE IF ~Nullish(tracker.battery) /\ ToPrimitiveThrows(tracker.battery) THEN Throw(r)
  ELSE
    LET idx == FindIndex(trackers.a, K_id,
                         Coalesce(trackerId, Str(slugify(ToStringJS(tracker.name)))))
        base == IF idx > 0 THEN trackers.a[idx] ELSE Null
        battery == toPercentBattery(tracker.battery)
        next == Obj(<<
          <<K_id, Coalesce(trackerId, Coalesce(OptProp(base, K_id),
                    Str(slugify(ToStringJS(OrElse(tracker.name, Str(S_tracker)))))))>>,
          <<K_name, CoalesceAll(<<tracker.name, OptProp(base, K_name), Str(S_Tracker)>>)>>,
          <<K_model, Coalesce(OptProp(base, K_model), Str(<<>>))>>,
          <<K_batteryLevel, CoalesceAll(<<battery, OptProp(base, K_batteryLevel), Whole(100)>>)>>,
          <<K_status, CoalesceAll(<<tracker.status, OptProp(base, K_status), Str(S_Active)>>)>> >>)
        merged == Spread(IF base.t = "object" THEN base ELSE Obj(<<>>),
                         pick(next, <<K_name, K_batteryLevel, K_status>>))
        updated == IF idx > 0 THEN [trackers.a EXCEPT ![idx] = merged]
                   ELSE Append(trackers.a, next)
    IN Wrote(r, writeJSON(r.ls, LS_TRACKERS, Arr(updated), faults), LS_TRACKERS)

\* UpsertTracker that appends the record also when the id is already stored
UpsertTrackerAlwaysAppends(r, trackers, tracker, trackerId, faults) ==
  IF r.thrown THEN r
  ELSE IF ~(Truthy(trackerId) \/ Truthy(tracker.name)) THEN r
  ELSE IF trackers.t # "array" THEN Throw(r)
  ELSE IF trackers.a # <<>> /\ Nullish(trackerId) /\ ToPrimitiveThrows(tracker.name)
    THEN Throw(r)
  ELSE IF FindIndexThrows(trackers.a, K_id,
                          Coalesce(trackerId, Str(slugify(ToStringJS(tracker.name)))))
    THEN Throw(r)
  ELSE IF SlugThrows(trackerId, Undefined, tracker.name) THEN Throw(r)
  ELSE IF ~Nullish(tracker.battery) /\ ToPrimitiveThrows(tracker.battery) THEN Throw(r)
  ELSE
    LET idx == FindIndex(trackers.a, K_id,
                         Coalesce(trackerId, Str(slugify(ToStringJS(tracker.name)))))
        base == IF idx > 0 THEN trackers.a[idx] ELSE Null
        battery == toPercentBattery(tracker.battery)
        next == Obj(<<
          <<K_id, Coalesce(trackerId, Coalesce(OptProp(base, K_id),
                    Str(slugify(ToStringJS(OrElse(tracker.name, Str(S_tracker)))))))>>,
          <<K_name, CoalesceAll(<<tracker.name, OptProp(base, K_name), Str(S_Tracker)>>)>>,
          <<K_model, Coalesce(OptProp(base, K_model), Str(<<>>))>>,
          <<K_batteryLevel, CoalesceAll(<<battery, OptProp(base, K_batteryLevel), Whole(0)>>)>>,
          <<K_status, CoalesceAll(<<tracker.status, OptProp(base, K_status), Str(S_Active)>>)>> >>)
        merged == Spread(IF base.t = "object" THEN base ELSE Obj(<<>>),
                         pick(next, <<K_name, K_batteryLevel, K_status>>))
        updated == IF FALSE THEN [trackers.a EXCEPT ![idx] = merged]
                   ELSE Append(trackers.a, next)
    IN Wrote(r, writeJSON(r.ls, LS_TRACKERS, Arr(updated), faults), LS_TRACKERS)
\* lines 287-302; toPercentBattery(tracker.battery) of line 295 throws where
\* Number(v) does
UpsertTracker(r, trackers, tracker, trackerId, faults) ==
  IF r.thrown THEN r
  ELSE IF ~(Truthy(trackerId) \/ Truthy(tracker.name)) THEN r
  ELSE IF trackers.t # "array" THEN Throw(r)
  ELSE IF trackers.a # <<>> /\ Nullish(trackerId) /\ ToPrimitiveThrows(tracker.name)
    THEN Throw(r)
  ELSE IF FindIndexThrows(trackers.a, K_id,
                          Coalesce(trackerId, Str(slugify(ToStringJS(tracker.name)))))
    THEN Throw(r)
  ELSE IF SlugThrows(trackerId, Undefined, tracker.name) THEN Throw(r)
  ELSE IF ~Nullish(tracker.battery) /\ ToPrimitiveThrows(tracker.battery) THEN Throw(r)
  ELSE
    LET idx == FindIndex(trackers.a, K_id,
                         Coalesce(trackerId, Str(slugify(ToStringJS(tracker.name)))))
        base == IF idx > 0 THEN trackers.a[idx] ELSE Null
        battery == toPercentBattery(tracker.battery)
        next == Obj(<<
          <<K_id, Coalesce(trackerId, Coalesce(OptProp(base, K_id),
                    Str(slugify(ToStringJS(OrElse(tracker.name, Str(S_tracker)))))))>>,
          <<K_name, CoalesceAll(<<tracker.name, OptProp(base, K_name), Str(S_Tracker)>>)>>,
          <<K_model, Coalesce(OptProp(base, K_model), Str(<<>>))>>,
          <<K_batteryLevel, CoalesceAll(<<battery, OptProp(base, K_batteryLevel), Whole(0)>>)>>,
          <<K_status, CoalesceAll(<<tracker.status, OptProp(base, K_status), Str(S_Active)>>)>> >>)
        merged == Spread(IF base.t = "object" THEN base ELSE Obj(<<>>),
                         pick(next, <<K_name, K_batteryLevel, K_status>>))
        updated == IF idx > 0 THEN [trackers.a EXCEPT ![idx] = merged]
                   ELSE Append(trackers.a, next)
    IN Wrote(r, writeJSON(r.ls, LS_TRACKERS, Arr(updated), faults), LS_TRACKERS)

\* UpsertLink without the removal of the tracker's other links
UpsertLinkKeepsConflicts(r, links, assetId, trackerId, trackingStatus, faults) ==
  IF r.thrown THEN r
  ELSE IF ~(Truthy(assetId) /\ Truthy(trackerId)) THEN r
  ELSE IF links.t # "array" THEN Throw(r)
  ELSE IF \E i \in 1..Len(links.a) : Nullish(links.a[i]) THEN Throw(r)
  ELSE
    LET IsPair(l) == Prop(l, K_assetId) = assetId /\ Prop(l, K_trackerId) = trackerId
        filtered == links.a
        exists == \E i \in 1..Len(filtered) : IsPair(filtered[i])
        updated ==
          IF ~exists
          THEN Append(filtered, Obj(<< <<K_assetId, assetId>>, <<K_trackerId, trackerId>>,
                                       <<K_status, OrElse(trackingStatus, Str(S_Active))>> >>))
          ELSE [i \in 1..Len(filtered) |->
                  IF IsPair(filtered[i])
                  THEN SetProp(filtered[i], K_status,
                               OrElse(trackingStatus, Prop(filtered[i], K_status)))
                  ELSE filtered[i]]
    IN Wrote(r, writeJSON(r.ls, LS_LINKS, Arr(updated), faults), LS_LINKS)

\* UpsertLink that runs when either id is known instead of both
UpsertLinkEitherId(r, links, assetId, trackerId, trackingStatus, faults) ==
  IF r.thrown THEN r
  ELSE IF ~(Truthy(assetId) \/ Truthy(trackerId)) THEN r
  ELSE IF links.t # "array" THEN Throw(r)
  ELSE IF \E i \in 1..Len(links.a) : Nullish(links.a[i]) THEN Throw(r)
  ELSE
    LET IsPair(l) == Prop(l, K_assetId) = assetId /\ Prop(l, K_trackerId) = trackerId
        filtered == SelectSeq(links.a,
                      LAMBDA l : Prop(l, K_trackerId) # trackerId \/ Prop(l, K_assetId) = assetId)
        exists == \E i \in 1..Len(filtered) : IsPair(filtered[i])
        updated ==
          IF ~exists
          THEN Append(filtered, Obj(<< <<K_assetId, assetId>>, <<K_trackerId, trackerId>>,
                                       <<K_status, OrElse(trackingStatus, Str(S_Active))>> >>))
          ELSE [i \in 1..Len(filtered) |->
                  IF IsPair(filtered[i])
                  THEN SetProp(filtered[i], K_status,
                               OrElse(trackingStatus, Prop(filtered[i], K_status)))
                  ELSE filtered[i]]
    IN Wrote(r, writeJSON(r.ls, LS_LINKS, Arr(updated), faults), LS_LINKS)
\* lines 304-317
UpsertLink(r, links, assetId, trackerId, trackingStatus, faults) ==
  IF r.thrown THEN r
  ELSE IF ~(Truthy(assetId) /\ Truthy(trackerId)) THEN r
  ELSE IF links.t # "array" THEN Throw(r)
  ELSE IF \E i \in 1..Len(links.a) : Nullish(links.a[i]) THEN Throw(r)
  ELSE
    LET IsPair(l) == Prop(l, K_assetId) = assetId /\ Prop(l, K_trackerId) = trackerId
        filtered == SelectSeq(links.a,
                      LAMBDA l : Prop(l, K_trackerId) # trackerId \/ Prop(l, K_assetId) = assetId)
        exists == \E i \in 1..Len(filtered) : IsPair(filtered[i])
        updated ==
          IF ~exists
          THEN Append(filtered, Obj(<< <<K_assetId, assetId>>, <<K_trackerId, trackerId>>,
                                       <<K_status, OrElse(trackingStatus, Str(S_Active))>> >>))
          ELSE [i \in 1..Len(filtered) |->
                  IF IsPair(filtered[i])
                  THEN SetProp(filtered[i], K_status,
                               OrElse(trackingStatus, Prop(filtered[i], K_status)))
                  ELSE filtered[i]]
    IN Wrote(r, writeJSON(r.ls, LS_LINKS, Arr(updated), faults), LS_LINKS)

\* the position object of lines 322 and 327, unless Number(track.timestamp)
\* throws; dateNow is Date.now() at that line
PositionEntry(track, dateNow) ==
  IF ToPrimitiveThrows(track.timestamp) THEN TypeError
  ELSE Obj(<< <<K_lat, track.lat>>, <<K_lng, track.lng>>,
              <<K_receivedAt, OrElse(ToNumber(track.timestamp), Whole(dateNow))>> >>)

\* the element of Array.prototype at an array index, undefined past the
\* elements that were pushed onto it
ProtoElement(proto, key) ==
  IF NumeralLess(key, NatToString(Len(proto))) THEN proto[DigitsToNat(DigitVals(key)) + 1]
  ELSE Undefined

\* map[key] for a key computed at run time, on what readJSON returned: an own
\* property, an element or the length of an array, a character or the length
\* of a string, or what the prototype chain holds under that name.
\* Array.prototype itself is the array of the elements pushed onto it.
Lookup(map, key, proto) ==
  CASE map.t = "object" ->
         IF HasKey(map, key) THEN Prop(map, key)
         ELSE IF key \in ObjectPrototypeNames THEN Inherited
         ELSE Undefined
    [] map.t = "array" ->
         IF IsArrayIndex(key)
         THEN (IF NumeralLess(key, NatToString(Len(map.a)))
               THEN map.a[DigitsToNat(DigitVals(key)) + 1] ELSE ProtoElement(proto, key))
         ELSE IF key = K_length THEN Whole(Len(map.a))
         ELSE IF key = K___proto__ THEN Arr(proto)
         ELSE IF key \in ArrayPrototypeNames \cup ObjectPrototypeNames THEN Inherited
         ELSE Undefined
    [] map.t = "string" ->
         IF IsArrayIndex(key) /\ NumeralLess(key, NatToString(Len(map.s)))
         THEN Str(<<map.s[DigitsToNat(DigitVals(key)) + 1]>>)
         ELSE IF key = K_length THEN Whole(Len(map.s))
         ELSE IF key \in StringPrototypeNames \cup ObjectPrototypeNames THEN Inherited
         ELSE Undefined
    [] map.t \in {"number", "NaN", "Infinity", "-Infinity"} ->
         IF key \in NumberPrototypeNames \cup ObjectPrototypeNames THEN Inherited
         ELSE Undefined
    [] map.t = "boolean" ->
         IF key \in ObjectPrototypeNames THEN Inherited ELSE Undefined
    [] OTHER -> Undefined

\* map[key] = val, val an object or an array, throws: null has no properties
\* (TypeError); module code is strict, so a primitive rejects the assignment
\* (TypeError) unless the name is __proto__, whose setter returns without an
\* effect on a primitive; the length of an array rejects val (RangeError)
AssignThrows(map, key) ==
  \/ Nullish(map)
  \/ map.t \notin {"object", "array"} /\ key # K___proto__
  \/ map.t = "array" /\ key = K_length

\* JSON.stringify throws on the array map after map[key] = val, key an index
\* at or past its end: the text has the items of map, those that the holes
\* inherit from Array.prototype, null for every other hole, val, and a comma
\* after every item before val, and it is longer than a string can be.  The
\* lengths are added as digits, an index being as large as 2^32 - 2.
StringifyThrows(map, key, val, proto) ==
  /\ map.t = "array"
  /\ IsArrayIndex(key)
  /\ ~NumeralLess(key, NatToString(Len(map.a)))
  /\ LET index == StripLeadingZeros(DigitVals(key))
         filled == IF Len(proto) <= Len(map.a) THEN Len(map.a)
                   ELSE IF NumeralLess(key, NatToString(Len(proto))) THEN DigitsToNat(index)
                   ELSE Len(proto)
         items == Total([j \in 1..filled |->
                           JsonLength(IF j <= Len(map.a) THEN map.a[j] ELSE proto[j])])
         holes == Sub(index, NatDigits(filled))
     IN DigitsLess(NatDigits(MaxStringLength),
                   Add(Add(index, Times2(holes, 2)), NatDigits(2 + items + JsonLength(val))))

\* map[key] = val when it does not throw, as JSON.stringify finds map.  On an
\* object without an own __proto__ that name is the prototype setter: no own
\* property is made.  On an array an index sets the element, after holes if it
\* lies past the end, and a hole reads as Array.prototype has it; any other
\* name is a property JSON.stringify leaves out.  A primitive stays as it is.
\* An array that JSON.stringify cannot write is TooLong.
AssignKey(map, key, val, proto) ==
  IF map.t = "object"
  THEN (IF key = K___proto__ /\ ~HasKey(map, key) THEN map ELSE SetProp(map, key, val))
  ELSE IF StringifyThrows(map, key, val, proto) THEN TooLong
  ELSE IF map.t = "array" /\ IsArrayIndex(key)
    THEN LET i == DigitsToNat(DigitVals(key)) + 1
         IN Arr([j \in 1..(IF i > Len(map.a) THEN i ELSE Len(map.a)) |->
                   IF j = i THEN val
                   ELSE IF j <= Len(map.a) THEN map.a[j]
                   ELSE IF j <= Len(proto) THEN proto[j]
                   ELSE Undefined])
  ELSE map

\* lines 321-323
UpdatePosition(r, track, trackerId, faults, nowPos) ==
  IF r.thrown THEN r
  ELSE
    LET posMap == readJSON(r.ls, LS_TRACKER_POS, Obj(<<>>), faults)
    IN IF IsError(PositionEntry(track, nowPos)) \/ AssignThrows(posMap, trackerId.s)
       THEN Throw(r)
       ELSE Wrote(r, writeJSON(r.ls, LS_TRACKER_POS,
                               AssignKey(posMap, trackerId.s, PositionEntry(track, nowPos),
                                         r.proto),
                               faults),
                  LS_TRACKER_POS)

\* arr.push(entry) of line 327 on the arr that is Array.prototype: entry
\* becomes its next element
Pushed(r, entry) == [r EXCEPT !.proto = Append(@, entry)]

\* lines 325-329.  logsMap[trackerId] is Array.prototype when logsMap is an
\* array and the id is __proto__: the push lands on Array.prototype, line 328
\* sets the prototype of logsMap, and logsMap is written as it was read.
AppendLog(r, track, trackerId, faults, nowLog) ==
  IF r.thrown THEN r
  ELSE
    LET logsMap == readJSON(r.ls, LS_TRACKING_LOGS, Obj(<<>>), faults)
        arr == Coalesce(Lookup(logsMap, trackerId.s, r.proto), Arr(<<>>))
    IN IF arr.t # "array" \/ IsError(PositionEntry(track, nowLog)) THEN Throw(r)
       ELSE IF logsMap.t = "array" /\ trackerId.s = K___proto__
         THEN Wrote(Pushed(r, PositionEntry(track, nowLog)),
                    writeJSON(r.ls, LS_TRACKING_LOGS, logsMap, faults), LS_TRACKING_LOGS)
       ELSE IF AssignThrows(logsMap, trackerId.s) THEN Throw(r)
       ELSE Wrote(r, writeJSON(r.ls, LS_TRACKING_LOGS,
                               AssignKey(logsMap, trackerId.s,
                                         Arr(SliceLast(Append(arr.a, PositionEntry(track, nowLog)),
                                                       HISTORY_CAP)),
                                         r.proto),
                               faults),
                  LS_TRACKING_LOGS)

\* lines 319-330
UpdateTracking(r, track, trackerId, faults, nowPos, nowLog) ==
  IF r.thrown THEN r
  ELSE IF ~(~isNaN(track.lat) /\ ~isNaN(track.lng) /\ Truthy(trackerId)) THEN r
  ELSE AppendLog(UpdatePosition(r, track, trackerId, faults, nowPos),
                 track, trackerId, faults, nowLog)

\* lines 253-264 and 267-269: what the payload resolves to and what is loaded;
\* track, assetId and trackerId may be the TypeError thrown in their place
Resolve(ls, payload, faults, dateNow) ==
  LET p == Unwrap(payload)
      asset == resolveAssetFields(p)
      tracker == resolveTrackerFields(p)
  IN [asset |-> asset,
      tracker |-> tracker,
      track |-> resolveTrackingFields(p, dateNow),
      assetId |-> DeriveId(asset),
      trackerId |-> DeriveId(tracker),
      assets |-> readJSON(ls, LS_ASSETS, Arr(<<>>), faults),
      trackers |-> readJSON(ls, LS_TRACKERS, Arr(<<>>), faults),
      links |-> readJSON(ls, LS_LINKS, Arr(<<>>), faults)]

\* Phases with the tracker list merged and written before the asset list
PhasesTrackerFirst(r, c, faults, nowPos, nowLog) ==
  UpdateTracking(
    UpsertLink(
      UpsertAsset(
        UpsertTracker(r, c.trackers, c.tracker, c.trackerId, faults),
        c.assets, c.asset, c.assetId, faults),
      c.links, c.assetId, c.trackerId, c.track.trackingStatus, faults),
    c.track, c.trackerId, faults, nowPos, nowLog)
\* lines 271-330 on what Resolve gave; nowPos and nowLog are Date.now() at
\* lines 322 and 327
Phases(r, c, faults, nowPos, nowLog) ==
  UpdateTracking(
    UpsertLink(
      UpsertTracker(
        UpsertAsset(r, c.assets, c.asset, c.assetId, faults),
        c.trackers, c.tracker, c.trackerId, faults),
      c.links, c.assetId, c.trackerId, c.track.trackingStatus, faults),
    c.track, c.trackerId, faults, nowPos, nowLog)

\* lines 253-330 on what Resolve gave: a conversion that threw in lines 248,
\* 263 or 264 ends the body before anything is read or written
Body(r, c, faults, nowPos, nowLog) ==
  IF IsError(c.track) \/ IsError(c.assetId) \/ IsError(c.trackerId) THEN Throw(r)
  ELSE Phases(r, c, faults, nowPos, nowLog)

\* the body of the try block, lines 253-330, in a page whose Array.prototype
\* holds the elements proto; now is <<Date.now() at line 247, at line 322, at
\* line 327>>
TryBody(ls, proto, payload, faults, now) ==
  Body(Start(ls, proto), Resolve(ls, payload, faults, now[1]), faults, now[2], now[3])

\* the outcome r of a body as its caller sees it, with and without a catch
Caught(r) ==
  [ls |-> r.ls, proto |-> r.proto, thrown |-> r.thrown, writes |-> r.writes,
   raised |-> FALSE]
Uncaught(r) ==
  [ls |-> r.ls, proto |-> r.proto, thrown |-> r.thrown, writes |-> r.writes,
   raised |-> r.thrown]

\* processTrackingWebhook without the try/catch around its body
processTrackingWebhookNoCatch(ls, proto, payload, faults, now) ==
  Uncaught(TryBody(ls, proto, payload, faults, now))
\* try { ... } catch (e) { /* noop */ }: raised tells whether the caller sees
\* an exception
processTrackingWebhook(ls, proto, payload, faults, now) ==
  Caught(TryBody(ls, proto, payload, faults, now))

\* ------------------------------------------------------------------------
\* Bounds and inputs
\* ------------------------------------------------------------------------
MaxSteps == 3
MaxFaultSteps == 2
MaxTick == 1
ClockStart == 10
MaxFeeds == 501
MaxOther == 2
MaxEdgeSteps == 2
MaxBatterySteps == 3

\* {"ID":"a1","trackerId":"t1","lat":1,"lng":2,"timestamp":5}
PBindA1T1 ==
  Obj(<< <<K_ID, Str(S_a1)>>, <<K_trackerId, Str(S_t1)>>, <<K_lat, Whole(1)>>,
         <<K_lng, Whole(2)>>, <<K_timestamp, Whole(5)>> >>)
\* {"assetId":"a2","trackerId":"t1","latitude":3,"longitude":4}
PBindA2T1 ==
  Obj(<< <<K_assetId, Str(S_a2)>>, <<K_trackerId, Str(S_t1)>>, <<K_latitude, Whole(3)>>,
         <<K_longitude, Whole(4)>> >>)
\* {"id":"a1","status":"Maintenance"}
PIdStatus == Obj(<< <<K_id, Str(S_a1)>>, <<K_status, Str(S_Maintenance)>> >>)
\* {"ID":"a1","Asset Status":"Maintenance"}
PIdAssetStatus == Obj(<< <<K_ID, Str(S_a1)>>, <<K_Asset_Status, Str(S_Maintenance)>> >>)
\* {"Asset ID":"a1","Asset Name":"Y","assetStatus":null,"description":"Q","type":"Movable"}
PRenameA1 ==
  Obj(<< <<K_Asset_ID, Str(S_a1)>>, <<K_Asset_Name, Str(S_Y)>>, <<K_assetStatus, Null>>,
         <<K_description, Str(S_Q)>>, <<K_type, Str(S_Movable)>> >>)
\* {"trackerId":"t1","trackerName":"G2","battery":0.85,"trackerStatus":"Inactive","model":"Z"}
PTrackerT1 ==
  Obj(<< <<K_trackerId, Str(S_t1)>>, <<K_trackerName, Str(S_G2)>>, <<K_battery, Num(850)>>,
         <<K_trackerStatus, Str(S_Inactive)>>, <<K_model, Str(S_Z)>> >>)
\* {"Output":{"Asset ID":"A1","Asset Name":"Truck","latitude":12.97,"longitude":77.59,
\*            "tracker":{"id":"T1","name":"GPS1"}}}
PEndToEnd ==
  Obj(<< <<K_Output,
           Obj(<< <<K_Asset_ID, Str(S_A1)>>, <<K_Asset_Name, Str(S_Truck)>>,
                  <<K_latitude, Num(12970)>>, <<K_longitude, Num(77590)>>,
                  <<K_tracker, Obj(<< <<K_id, Str(S_T1)>>, <<K_name, Str(S_GPS1)>> >>)>> >>)>> >>)
\* {"asset_id":"a2","deviceId":"t2","Tracking Status":"Inactive"}
PBindA2T2 ==
  Obj(<< <<K_asset_id, Str(S_a2)>>, <<K_deviceId, Str(S_t2)>>,
         <<K_Tracking_Status, Str(S_Inactive)>> >>)
\* {"Asset Name":"Delivery Truck #1"}
PNameOnly == Obj(<< <<K_Asset_Name, Str(S_DeliveryTruck1)>> >>)
\* {"ID":"a1","trackerId":"t2","lat":"7.5","lng":"8","timestamp":"2024-01-01"}
PBindA1T2 ==
  Obj(<< <<K_ID, Str(S_a1)>>, <<K_trackerId, Str(S_t2)>>, <<K_lat, Str(S_7_5)>>,
         <<K_lng, Str(S_8)>>, <<K_timestamp, Str(S_IsoDate)>> >>)

\* {"toString":1}: an object that cannot be converted to a string or a number,
\* String() and Number() of it throw a TypeError
BadToString == Obj(<< <<K_toString, Whole(1)>> >>)
\* {"assetId":"a2","Asset Name":"Y","trackerId":"t1","battery":{"toString":1}}
PBatteryThrows ==
  Obj(<< <<K_assetId, Str(S_a2)>>, <<K_Asset_Name, Str(S_Y)>>, <<K_trackerId, Str(S_t1)>>,
         <<K_battery, BadToString>> >>)

Payloads ==
  {PBindA1T1, PBindA2T1, PIdStatus, PIdAssetStatus, PRenameA1, PTrackerT1, PEndToEnd,
   PBindA2T2, PNameOnly, PBindA1T2, Null, Str(S_ping), PBatteryThrows}

PayloadsFault == {PBindA1T1, PBindA2T2, Null, Arr(<<Whole(1)>>)}

\* the localStorage calls of one reconciliation that fail
FaultSets ==
  {{}} \cup {{GetFails(k)} : k \in LSKeys} \cup {{SetFails(k)} : k \in LSKeys}

\* what another writer of localStorage may leave under a key
CorruptValues == {BadText, Whole(5), Arr(<<Null>>)}

EmptyStore == [k \in LSKeys |-> NoItem]

\* a store as DeviceConfig leaves it after one tracker, one asset and their link
SeededStore ==
  [k \in LSKeys |->
     CASE k = LS_ASSETS ->
            Arr(<< Obj(<< <<K_id, Str(S_a1)>>, <<K_name, Str(S_X)>>,
                          <<K_description, Str(S_D)>>, <<K_type, Str(S_Stationery)>>,
                          <<K_baseLocation, Str(S_B)>>, <<K_status, Str(S_Active)>> >>) >>)
       [] k = LS_TRACKERS ->
            Arr(<< Obj(<< <<K_id, Str(S_t1)>>, <<K_name, Str(S_G1)>>, <<K_model, Str(S_M)>>,
                          <<K_batteryLevel, Whole(50)>>, <<K_status, Str(S_Missing)>> >>) >>)
       [] k = LS_LINKS ->
            Arr(<< Obj(<< <<K_assetId, Str(S_a1)>>, <<K_trackerId, Str(S_t1)>>,
                          <<K_status, Str(S_Inactive)>> >>) >>)
       [] OTHER -> NoItem]

\* ------------------------------------------------------------------------
\* State
\* ------------------------------------------------------------------------
VARIABLES
  localStorage,  \* key -> NoItem, EmptyText, BadText or the JSON value stored under it
  clock,         \* Date.now()
  steps,         \* operations so far
  op,            \* the last operation
  payload,       \* the payload of the last reconciliation
  faults,        \* the localStorage calls that failed in it
  pre,           \* localStorage before the last operation
  thrown,        \* an exception was thrown inside the last reconciliation
  raised,        \* an exception left the last reconciliation
  writes,        \* the keys writeJSON was called with in it, in order
  now,           \* the readings of Date.now() in it (lines 247, 322, 327)
  repeated,      \* it had the payload of the reconciliation right before it
  feeds,         \* coordinate-bearing payloads fed for tracker t1 so far
  arrayPrototype, \* the indexed elements of Array.prototype, in index order
  preProto,      \* arrayPrototype before the last operation
  \* LiveMap (TrackMap.tsx)
  listening,     \* the Listen/Stop toggle
  webhookUrl,    \* the text of the Webhook URL input
  session,       \* the runs of the polling effect that called poll() so far
  stopped,       \* session -> the stopped flag of its closure
  fetching,      \* session -> its polls waiting for fetch
  parsing,       \* session -> its polls waiting for res.json()
  timers,        \* session -> its pending setTimeout(poll) timers
  fetches,       \* session -> the fetches it started so far
  finished,      \* session -> its polls that ran their finally block
  late,          \* session -> what it did after it was stopped
  onceFetching,  \* the Fetch once requests waiting for fetch
  onceParsing,   \* the Fetch once requests waiting for res.json()
  onceFetches,   \* the fetches that Fetch once started so far
  plotted,       \* the samples plotted so far
  events,        \* the recorded events, newest first
  \* DeviceConfig (DeviceConfig.tsx)
  mounted,       \* the component is mounted and the effects of its first commit ran
  crashed,       \* a render threw and the component is gone
  stateTrackers, \* the trackers state of the last render
  stateAssets,   \* the assets state of the last render
  stateLinks,    \* the links state of the last render
  selectedAssetId,   \* the asset picked in the link form, of the last render
  selectedTrackerId, \* the tracker picked in the link form, of the last render
  queued,        \* the state updates that wait for the next render, in order
  pendingTrackers, \* Save Tracker submissions waiting for the API
  pendingAssets, \* Save Asset submissions waiting for the API
  submits        \* submissions so far

liveVars == <<listening, webhookUrl, session, stopped, fetching, parsing, timers, fetches,
              finished, late, onceFetching, onceParsing, onceFetches, plotted, events>>

configVars == <<mounted, crashed, stateTrackers, stateAssets, stateLinks, selectedAssetId,
                selectedTrackerId, queued, pendingTrackers, pendingAssets, submits>>

\* the built-in object that code of the page can reach and change
realmVars == <<arrayPrototype, preProto>>

vars == <<localStorage, clock, steps, op, payload, faults, pre, thrown, raised, writes,
          now, repeated, feeds, realmVars, liveVars, configVars>>

MaxSessions == 2
Sessions == 1..MaxSessions

\* what the Webhook URL input may hold: nothing, or one of two addresses
NoUrl == ""
Urls == {NoUrl, "https://a.example/hook", "https://b.example/hook"}

\* the state after construction, with one of the given stores
InitWith(stores) ==
  /\ localStorage \in stores
  /\ clock = ClockStart
  /\ steps = 0
  /\ op = "init"
  /\ payload = Undefined
  /\ faults = {}
  /\ pre = localStorage
  /\ thrown = FALSE
  /\ raised = FALSE
  /\ writes = <<>>
  /\ now = <<ClockStart, ClockStart, ClockStart>>
  /\ repeated = FALSE
  /\ feeds = 0
  /\ arrayPrototype = <<>>
  /\ preProto = <<>>
  /\ listening = FALSE
  /\ webhookUrl = NoUrl
  /\ session = 0
  /\ stopped = [s \in Sessions |-> FALSE]
  /\ fetching = [s \in Sessions |-> 0]
  /\ parsing = [s \in Sessions |-> 0]
  /\ timers = [s \in Sessions |-> 0]
  /\ fetches = [s \in Sessions |-> 0]
  /\ finished = [s \in Sessions |-> 0]
  /\ late = [s \in Sessions |-> {}]
  /\ onceFetching = 0
  /\ onceParsing = 0
  /\ onceFetches = 0
  /\ plotted = 0
  /\ events = <<>>
  /\ mounted = FALSE
  /\ crashed = FALSE
  /\ stateTrackers = <<>>
  /\ stateAssets = <<>>
  /\ stateLinks = <<>>
  /\ selectedAssetId = Str(<<>>)
  /\ selectedTrackerId = Str(<<>>)
  /\ queued = <<>>
  /\ pendingTrackers = <<>>
  /\ pendingAssets = <<>>
  /\ submits = 0

Init == InitWith({EmptyStore, SeededStore})

\* one call processTrackingWebhook(p) with the localStorage calls in F failing
\* d is the time that passes between the two late readings of the clock
Reconcile(p, F, d) ==
  \E r \in {processTrackingWebhook(localStorage, arrayPrototype, p, F,
                                    <<clock, clock, clock + d>>)} :
     /\ now' = <<clock, clock, clock + d>>
     /\ repeated' = (op = "reconcile" /\ payload = p)
     /\ localStorage' = r.ls
     /\ arrayPrototype' = r.proto
     /\ preProto' = arrayPrototype
     /\ thrown' = r.thrown
     /\ raised' = r.raised
     /\ writes' = r.writes
     /\ clock' = clock + MaxTick + 1
     /\ steps' = steps + 1
     /\ op' = "reconcile"
     /\ payload' = p
     /\ faults' = F
     /\ pre' = localStorage
     /\ UNCHANGED <<liveVars, configVars>>

\* The clock may advance between lines 322 and 327; the later reading is used
\* only when the payload's timestamp is not a usable number.
Ticks(p) ==
  IF ToPrimitiveThrows(get(Unwrap(p), K_timestamp)) THEN {0}
  ELSE IF Truthy(ToNumber(Coalesce(get(Unwrap(p), K_timestamp), Whole(clock)))) THEN {0}
  ELSE 0..MaxTick

\* a webhook response or pasted sample reaches the reconciler
Webhook ==
  /\ steps < MaxSteps
  /\ \E p \in Payloads : \E d \in Ticks(p) : Reconcile(p, {}, d)
  /\ UNCHANGED feeds

Next == Webhook

Spec == Init /\ [][Next]_vars

\* the same with failing localStorage calls and foreign content in the store
WebhookFaulty ==
  /\ steps < MaxFaultSteps
  /\ \E p \in PayloadsFault, F \in FaultSets : Reconcile(p, F, 0)
  /\ UNCHANGED feeds

\* localStorage.setItem(k, JSON.stringify(v)) by other code of the page
Foreign(k, v) ==
  /\ localStorage' = [localStorage EXCEPT ![k] = v]
  /\ pre' = localStorage
  /\ op' = "foreign"
  /\ steps' = steps + 1
  /\ UNCHANGED <<clock, payload, faults, thrown, raised, writes, now, feeds>>
  /\ UNCHANGED <<arrayPrototype, liveVars, configVars>>
  /\ preProto' = arrayPrototype
  /\ repeated' = FALSE

ForeignWrite ==
  /\ steps < MaxFaultSteps
  /\ \E k \in LSKeys, v \in CorruptValues : Foreign(k, v)

NextFault == WebhookFaulty \/ ForeignWrite

SpecFault == Init /\ [][NextFault]_vars

\* {"trackerId":"t1","lat":k,"lng":k,"timestamp":k}: the k-th position of tracker t1
PFeed(k) ==
  Obj(<< <<K_trackerId, Str(S_t1)>>, <<K_lat, Whole(k)>>, <<K_lng, Whole(k)>>,
         <<K_timestamp, Whole(k)>> >>)

\* {"Tracker ID":"constructor","lat":1,"lng":2}: a tracker named as a property
\* every object inherits
PProtoName ==
  Obj(<< <<K_Tracker_ID, Str(S_constructor)>>, <<K_lat, Whole(1)>>, <<K_lng, Whole(2)>> >>)
\* {"Tracker ID":"__proto__","lat":1,"lng":2}
PProtoKey ==
  Obj(<< <<K_Tracker_ID, Str(K___proto__)>>, <<K_lat, Whole(1)>>, <<K_lng, Whole(2)>> >>)

\* payloads that carry no position of tracker t1
PayloadsOther == {PTrackerT1, PEndToEnd, PProtoName}

\* a long run of positions of one tracker
Feed ==
  /\ feeds < MaxFeeds
  /\ Reconcile(PFeed(feeds + 1), {}, 0)
  /\ feeds' = feeds + 1

\* other payloads arrive early in the run
Other ==
  /\ steps < MaxOther
  /\ \E p \in PayloadsOther : Reconcile(p, {}, 0)
  /\ UNCHANGED feeds

NextHist == Feed \/ Other

SpecHist == Init /\ [][NextHist]_vars

\* ------------------------------------------------------------------------
\* Payloads with unusual coordinates, statuses, identifiers and batteries
\* ------------------------------------------------------------------------
\* an object literal of a JSON payload: a key with no value is left out
Json(entries) == Obj(SelectSeq(entries, LAMBDA en : en[2] # Undefined))

\* {"trackerId":"t1","lat":lat,"lng":lng}
PCoords(lat, lng) ==
  Json(<< <<K_trackerId, Str(S_t1)>>, <<K_lat, lat>>, <<K_lng, lng>> >>)

\* coordinate values: none, "", true, "abc", 1e999 (parsed as Infinity), null, 3,
\* "1e3", "12.9716", {"toString":1}
CoordValues ==
  {Undefined, Str(<<>>), Bool(TRUE), Str(S_abc), PosInf, Null, Whole(3), Str(S_1e3),
   Str(S_12_9716), BadToString}

\* {"assetId":"a1","trackerId":"t1","status":s}
PLink(s) ==
  Json(<< <<K_assetId, Str(S_a1)>>, <<K_trackerId, Str(S_t1)>>, <<K_status, s>> >>)

LinkStatusValues == {Undefined, Str(S_Inactive), Str(S_Maintenance), Str(<<>>)}

\* {"ID":"  a1 ","Asset Name":"Truck"}
PPaddedId == Obj(<< <<K_ID, Str(S_a1_padded)>>, <<K_Asset_Name, Str(S_Truck)>> >>)
\* {"ID":" \f\t","Asset Name":"Delivery Truck #1","Tracker ID":7,"deviceName":"GPS1"}
PBlankId ==
  Obj(<< <<K_ID, Str(S_blank)>>, <<K_Asset_Name, Str(S_DeliveryTruck1)>>,
         <<K_Tracker_ID, Whole(7)>>, <<K_deviceName, Str(S_GPS1)>> >>)
\* {"asset":{"name":"Truck"},"tracker":{"name":"GPS Unit 2"},"lat":1,"lng":2}
PNested ==
  Obj(<< <<K_asset, Obj(<< <<K_name, Str(S_Truck)>> >>)>>,
         <<K_tracker, Obj(<< <<K_name, Str(S_GPS_Unit_2)>> >>)>>,
         <<K_lat, Whole(1)>>, <<K_lng, Whole(2)>> >>)
\* {"ID":" \f\t"}
PBlankOnly == Obj(<< <<K_ID, Str(S_blank)>> >>)
\* {"assetId":"a1","trackerId":"t1","status":"Inactive","battery":{"toString":1}}
PLinkThrows ==
  Obj(<< <<K_assetId, Str(S_a1)>>, <<K_trackerId, Str(S_t1)>>, <<K_status, Str(S_Inactive)>>,
         <<K_battery, BadToString>> >>)
\* {"ID":{"toString":1},"Asset Name":"Truck"}
PObjectId == Obj(<< <<K_ID, BadToString>>, <<K_Asset_Name, Str(S_Truck)>> >>)
\* {"trackerId":"t1","lat":1,"lng":2,"timestamp":{"toString":1}}
PTimestampThrows ==
  Obj(<< <<K_trackerId, Str(S_t1)>>, <<K_lat, Whole(1)>>, <<K_lng, Whole(2)>>,
         <<K_timestamp, BadToString>> >>)

PayloadsEdge ==
  {PCoords(v, Whole(4)) : v \in CoordValues} \cup {PCoords(Whole(3), v) : v \in CoordValues}
  \cup {PLink(s) : s \in LinkStatusValues}
  \cup {PNameOnly, PPaddedId, PBlankId, PNested, PBlankOnly, PEndToEnd}
  \cup {PLinkThrows, PObjectId, PTimestampThrows}

\* the reconciler is the first writer of the store
InitEmpty == Init /\ localStorage = EmptyStore

WebhookEdge ==
  /\ steps < MaxEdgeSteps
  /\ \E p \in PayloadsEdge : \E d \in Ticks(p) : Reconcile(p, {}, d)
  /\ UNCHANGED feeds

NextEdge == WebhookEdge

SpecEdge == InitEmpty /\ [][NextEdge]_vars

\* {"trackerId":"t1","battery":v}
PBattery(v) == Json(<< <<K_trackerId, Str(S_t1)>>, <<K_battery, v>> >>)

\* -1e307: times 100 it is beyond the largest double
MinusHuge == Dec(TRUE, <<1>>, 307)
\* 0.024999999999999998: the double right below 0.025
BelowHalf == Dec(FALSE, <<2,4,9,9,9,9,9,9,9,9,9,9,9,9,9,9,8>>, 0 - 18)

\* battery values: none, 0.85, 85, 150, "not-a-number", -5, "", true, 1e999 and
\* -1e999 (parsed as Infinity and -Infinity), null, 0.004, 1, 100.4, 0.285, "1e2",
\* {"toString":1}, -1e307, 0.024999999999999998
BatteryValues ==
  {Undefined, Num(850), Whole(85), Whole(150), Str(S_not_a_number), Whole(0 - 5),
   Str(<<>>), Bool(TRUE), PosInf, NegInf, Null, Num(4), Whole(1), Num(100400), Num(285),
   Str(S_1e2), BadToString, MinusHuge, BelowHalf}

PayloadsBattery == {PBattery(v) : v \in BatteryValues}

WebhookBattery ==
  /\ steps < MaxBatterySteps
  /\ \E p \in PayloadsBattery : Reconcile(p, {}, 0)
  /\ UNCHANGED feeds

NextBattery == WebhookBattery

SpecBattery == InitEmpty /\ [][NextBattery]_vars


\* {"Asset Name":"###"}: a name without a letter or digit
PHashAsset == Obj(<< <<K_Asset_Name, Str(S_hashes)>> >>)
\* {"deviceName":"###","lat":1,"lng":2}
PHashTracker ==
  Obj(<< <<K_deviceName, Str(S_hashes)>>, <<K_lat, Whole(1)>>, <<K_lng, Whole(2)>> >>)
\* {"ID":"delivery-truck-1","Tracker ID":"7","lat":3,"lng":4}
PSlugId ==
  Obj(<< <<K_ID, Str(S_delivery_truck_1)>>, <<K_Tracker_ID, Str(S_7)>>,
         <<K_lat, Whole(3)>>, <<K_lng, Whole(4)>> >>)

PayloadsIdent ==
  {PHashAsset, PHashTracker, PSlugId, PBlankId, PBindA1T1, PBindA2T1, PNameOnly,
   PTrackerT1, PProtoName, PProtoKey}

MaxIdentSteps == 3

WebhookIdent ==
  /\ steps < MaxIdentSteps
  /\ \E p \in PayloadsIdent : Reconcile(p, {}, 0)
  /\ UNCHANGED feeds

NextIdent == WebhookIdent

SpecIdent == InitEmpty /\ [][NextIdent]_vars

\* ------------------------------------------------------------------------
\* Arrays and numbers under the keys of the two maps, and trackers named as
\* array indices or as __proto__
\* ------------------------------------------------------------------------
\* {"Tracker ID":id,"lat":1,"lng":2}
PTrackerNamed(id) ==
  Obj(<< <<K_Tracker_ID, Str(id)>>, <<K_lat, Whole(1)>>, <<K_lng, Whole(2)>> >>)

PayloadsProto == {PTrackerNamed(id) : id \in {K___proto__, S_0, S_2, S_2000000000, S_t1}}

\* what another writer may leave in place of a map: [], [null], 5
MapValues == {Arr(<<>>), Arr(<<Null>>), Whole(5)}

MaxProtoSteps == 4

WebhookProto ==
  /\ steps < MaxProtoSteps
  /\ \E p \in PayloadsProto : Reconcile(p, {}, 0)
  /\ UNCHANGED feeds

ForeignMap ==
  /\ steps < MaxProtoSteps
  /\ \E k \in {LS_TRACKER_POS, LS_TRACKING_LOGS}, v \in MapValues : Foreign(k, v)

NextProto == WebhookProto \/ ForeignMap

SpecProto == InitEmpty /\ [][NextProto]_vars

\* ------------------------------------------------------------------------
\* LiveMap: extraction of coordinates and details (TrackMap.tsx)
\* ------------------------------------------------------------------------
\* Object.entries(v): the entries of an object, the indexed items of an array
EntriesOf(v) ==
  IF v.t = "object" THEN v.e
  ELSE [i \in 1..Len(v.a) |-> <<NatToString(i - 1), v.a[i]>>]

\* typeof v === "object" of a value that is not null
IsObjectLike(v) == v.t \in {"object", "array"}

\* new Map(entries.map(([k, v]) => [k.toLowerCase(), v])).get(k): the value of
\* the last entry whose lower-cased key is k, undefined without one
LowerGet(entries, k) ==
  LET hits == {i \in 1..Len(entries) : toLowerCase(entries[i][1]) = k}
  IN IF hits = {} THEN Undefined
     ELSE entries[CHOOSE i \in hits : \A j \in hits : j <= i][2]

LowerHas(entries, k) == \E i \in 1..Len(entries) : toLowerCase(entries[i][1]) = k

\* typeof v === "number" && !isNaN(v)
isNumberish(v) == v.t \in {"number", "Infinity", "-Infinity"}

\* s.includes(sub)
Includes(s, sub) ==
  \E i \in 0..(Len(s) - Len(sub)) : SubSeq(s, i + 1, i + Len(sub)) = sub

\* lines 154-183, the choice at one level: the TypeError of a Number() that
\* threw, else the pair of this level when both are numbers, else the first
\* pair found in the children
CoordinatesAt(lat, lng, found) ==
  IF IsError(lat) \/ IsError(lng) THEN TypeError
  ELSE IF isNumberish(lat) /\ isNumberish(lng)
  THEN Obj(<< <<K_lat, lat>>, <<K_lng, lng>> >>)
  ELSE IF found = <<>> THEN Null ELSE Head(found)

\* lines 154-183: the first lat/lng pair found, this level before the
\* children, or the TypeError of a Number() that threw on the way
RECURSIVE extractCoordinates(_)
extractCoordinates(obj) ==
  IF ~IsObjectLike(obj) THEN Null
  ELSE
    LET entries == EntriesOf(obj)
        latKeys == SelectSeq(<<K_lat, K_latitude>>, LAMBDA k : LowerHas(entries, k))
        lngKeys == SelectSeq(<<K_lng, K_lon, K_long, K_longitude>>,
                             LAMBDA k : LowerHas(entries, k))
        paired == latKeys # <<>> /\ lngKeys # <<>>
        children == SelectSeq(entries, LAMBDA e : IsObjectLike(e[2]))
    IN CoordinatesAt(
         IF paired THEN ToNumber(LowerGet(entries, Head(latKeys))) ELSE NaN,
         IF paired THEN ToNumber(LowerGet(entries, Head(lngKeys))) ELSE NaN,
         SelectSeq([i \in 1..Len(children) |-> extractCoordinates(children[i][2])],
                   LAMBDA c : c # Null))

\* the loop of lines 193-197 for one word: a matching entry is taken while the
\* node found so far is falsy
RECURSIVE TakeNode(_, _, _)
TakeNode(entries, word, node) ==
  IF entries = <<>> THEN node
  ELSE TakeNode(Tail(entries), word,
                IF ~Truthy(node) /\ Includes(toLowerCase(Head(entries)[1]), word)
                THEN Head(entries)[2] ELSE node)

\* lines 186-211: the tracker and the asset node of a response
RECURSIVE extractDetails(_)
extractDetails(obj) ==
  IF ~IsObjectLike(obj) THEN [tracker |-> Undefined, asset |-> Undefined]
  ELSE
    LET entries == EntriesOf(obj)
        tracker == TakeNode(entries, K_tracker, Undefined)
        asset == TakeNode(entries, K_asset, Undefined)
        children == SelectSeq(entries, LAMBDA e : IsObjectLike(e[2]))
        nested == [i \in 1..Len(children) |-> extractDetails(children[i][2])]
    IN IF Truthy(tracker) /\ Truthy(asset) THEN [tracker |-> tracker, asset |-> asset]
       ELSE [tracker |-> CoalesceAll(<<tracker>> \o [i \in 1..Len(nested) |-> nested[i].tracker]),
             asset |-> CoalesceAll(<<asset>> \o [i \in 1..Len(nested) |-> nested[i].asset])]

\* lines 225-238: the trimmed id of the tracker node, else its trimmed name
trackerKeyFromUnknown(tr) ==
  IF ~IsObjectLike(tr) THEN Null
  ELSE
    LET entries == EntriesOf(tr)
        id == CoalesceAll(<<LowerGet(entries, K_id), LowerGet(entries, toLowerCase(K_trackerId)),
                            LowerGet(entries, toLowerCase(K_deviceId))>>)
        name == CoalesceAll(<<LowerGet(entries, K_name), LowerGet(entries, toLowerCase(K_trackerName)),
                              LowerGet(entries, toLowerCase(K_deviceName))>>)
    IN IF id.t = "string" /\ trim(id.s) # <<>> THEN Str(trim(id.s))
       ELSE IF name.t = "string" /\ trim(name.s) # <<>> THEN Str(trim(name.s))
       ELSE Null

TRACKER_POS_STORAGE == "dc.trackerPositions"

\* lines 301-310: the last known position of the tracker, written into the
\* stored map; any exception is swallowed and nothing is written: a failing
\* localStorage call, a text that does not parse, an assignment that throws,
\* and a map that JSON.stringify cannot write (line 308).  No item and the
\* empty text are read as "{}" (line 306).
saveTrackerPosition(ls, proto, tracker, coords, dateNow, failing) ==
  LET key == trackerKeyFromUnknown(tracker)
      stored == ls[TRACKER_POS_STORAGE]
      map == IF stored \in {NoItem, EmptyText} THEN Obj(<<>>) ELSE stored
      entry == Obj(<< <<K_lat, Prop(coords, K_lat)>>, <<K_lng, Prop(coords, K_lng)>>,
                      <<K_receivedAt, Whole(dateNow)>> >>)
  IN IF key = Null THEN ls
     ELSE IF GetFails(TRACKER_POS_STORAGE) \in failing \/ stored = BadText THEN ls
     ELSE IF AssignThrows(map, key.s) \/ StringifyThrows(map, key.s, entry, proto) THEN ls
     ELSE IF SetFails(TRACKER_POS_STORAGE) \in failing THEN ls
     ELSE [ls EXCEPT ![TRACKER_POS_STORAGE] = JsonRoundTrip(AssignKey(map, key.s, entry, proto))]

EVENTS_CAP == 50

\* lines 355-364, and the same lines of handleFetchOnce (403-417) and
\* handlePlotSample (431-445): what a parsed value adds to the events and to
\* the store.  The event takes its time at line 359; the position is saved
\* by addMarker (line 333, once the map exists) and again at line 363, each
\* save with its own reading of the clock at line 307, so that the stored
\* position has the time dateSaved of the last save.  A conversion that
\* throws ends the try block with nothing recorded.
Extracted(data) ==
  LET root == Coalesce(OptProp(data, K_Output), data)
  IN [root |-> root, coords |-> extractCoordinates(root), details |-> extractDetails(root)]

ReceivedAt(evs, ls, proto, x, dateNow, dateSaved, failing) ==
  LET ev == [coords |-> x.coords, tracker |-> x.details.tracker, asset |-> x.details.asset,
             raw |-> x.root, receivedAt |-> dateNow]
  IN IF x.coords = Null \/ IsError(x.coords) THEN [events |-> evs, ls |-> ls]
     ELSE [events |-> SubSeq(<<ev>> \o evs, 1, Min({Len(evs) + 1, EVENTS_CAP})),
           ls |-> saveTrackerPosition(ls, proto, x.details.tracker, x.coords, dateSaved, failing)]

Received(evs, ls, proto, data, dateNow, dateSaved, failing) ==
  ReceivedAt(evs, ls, proto, Extracted(data), dateNow, dateSaved, failing)

\* ------------------------------------------------------------------------
\* LiveMap: the polling effect (lines 344-382) and the buttons
\* ------------------------------------------------------------------------
MaxPolls == 3

\* {"Output":{"Tracker":{"ID":" t1 "},"Asset":{"name":"Truck"},"Latitude":"7.5","Longitude":8}}
ROutput ==
  Obj(<< <<K_Output,
           Obj(<< <<S_Tracker, Obj(<< <<K_ID, Str(S_t1_padded)>> >>)>>,
                  <<S_Asset, Obj(<< <<K_name, Str(S_Truck)>> >>)>>,
                  <<K_Latitude, Str(S_7_5)>>, <<K_Longitude, Whole(8)>> >>)>> >>)
\* {"trackerName":"GPS1","status":{"lat":1,"lng":2}}: a tracker node that is no object
RNoTracker ==
  Obj(<< <<K_trackerName, Str(S_GPS1)>>,
         <<K_status, Obj(<< <<K_lat, Whole(1)>>, <<K_lng, Whole(2)>> >>)>> >>)
\* {"tracker":{"deviceId":"t2"},"lat":3,"lon":4}
RTracker2 ==
  Obj(<< <<K_tracker, Obj(<< <<K_deviceId, Str(S_t2)>> >>)>>,
         <<K_lat, Whole(3)>>, <<K_lon, Whole(4)>> >>)
\* {"status":"Active"}: no coordinates
RNoCoords == Obj(<< <<K_status, Str(S_Active)>> >>)

\* the bodies the webhook answers with
Responses == {ROutput, RNoCoords}

\* what the sample box may hold: a payload, or a text that is no JSON
Samples == {RTracker2, RNoTracker, BadText}

\* the time that may pass between line 359 and the last save of the position
Lapses == {0, 1}

\* the localStorage calls of saveTrackerPosition that fail
LiveFaults == {{}, {GetFails(TRACKER_POS_STORAGE)}, {SetFails(TRACKER_POS_STORAGE)}}

\* how the saves of one recorded value go: the time they take and the calls
\* that fail; the time plays no part in a save that fails
Saves == {<<d, {}>> : d \in Lapses} \cup {<<0, failing>> : failing \in LiveFaults}

\* setInterval in place of setTimeout: the timer stays after it fired
AfterFireInterval(n) == n
\* setTimeout, line 373: the timer is gone once it fired
AfterFire(n) == n - 1

RECURSIVE SumTo(_, _)
SumTo(f, n) == IF n = 0 THEN 0 ELSE f[n] + SumTo(f, n - 1)

\* the inputs the page asked for so far: the fetches of the polls and of
\* Fetch once, and the samples plotted
Started == SumTo(fetches, MaxSessions) + onceFetches + plotted

\* the effect of lines 344-382 ran past line 345 and its cleanup has not run:
\* the session of that run is the last one
ChainRuns == listening /\ webhookUrl # NoUrl

\* poll() runs up to its first await: the fetch of line 352 is started
StartPoll(s) ==
  /\ Started < MaxPolls
  /\ fetching' = [fetching EXCEPT ![s] = @ + 1]
  /\ fetches' = [fetches EXCEPT ![s] = @ + 1]

\* the finally block, lines 372-374
Finally(s) ==
  /\ finished' = [finished EXCEPT ![s] = @ + 1]
  /\ timers' = [timers EXCEPT ![s] = IF stopped[s] THEN @ ELSE @ + 1]

\* what the reconciler alone records or changes
Ghosts == <<steps, payload, faults, thrown, raised, writes, now, repeated, feeds, realmVars>>

\* what a step of LiveMap leaves alone besides its own state
LiveFrame(name) ==
  /\ UNCHANGED <<op, pre, Ghosts, configVars>>

onceVars == <<onceFetching, onceParsing, onceFetches, plotted>>

\* the effect runs with listening set and the address url: it returns at line
\* 345 without an address, else it is a new session and calls poll()
EffectRuns(url) ==
  IF url = NoUrl
  THEN UNCHANGED <<session, fetching, fetches>>
  ELSE /\ session < MaxSessions
       /\ session' = session + 1
       /\ StartPoll(session + 1)

\* the Listen button: listening is set and the effect runs
Listen ==
  /\ ~listening
  /\ listening' = TRUE
  /\ EffectRuns(webhookUrl)
  /\ UNCHANGED <<localStorage, clock, webhookUrl, stopped, parsing, timers, finished, late,
                 onceVars, events>>
  /\ LiveFrame("listen")

\* the Stop button: the cleanup of the effect, lines 379-381, when the effect
\* had not returned at line 345
StopListening ==
  /\ listening
  /\ listening' = FALSE
  /\ stopped' = IF ChainRuns THEN [stopped EXCEPT ![session] = TRUE] ELSE stopped
  /\ UNCHANGED <<localStorage, clock, webhookUrl, session, fetching, parsing, timers, fetches,
                 finished, late, onceVars, events>>
  /\ LiveFrame("stop")

\* the address is edited, line 493.  While listening the dependency of the
\* effect changed: the cleanup of the last run sets its stopped flag, and the
\* effect runs again with the new address while a poll of the last run may
\* still be under way.
EditUrl(url) ==
  /\ url # webhookUrl
  /\ webhookUrl' = url
  /\ IF listening
     THEN /\ stopped' = IF ChainRuns THEN [stopped EXCEPT ![session] = TRUE] ELSE stopped
          /\ EffectRuns(url)
     ELSE UNCHANGED <<stopped, session, fetching, fetches>>
  /\ UNCHANGED <<localStorage, clock, listening, parsing, timers, finished, late, onceVars,
                 events>>
  /\ LiveFrame("url")

\* a timer of line 373 fires and calls poll()
TimerFires(s) ==
  /\ timers[s] > 0
  /\ StartPoll(s)
  /\ timers' = [timers EXCEPT ![s] = AfterFire(@)]
  /\ late' = [late EXCEPT ![s] = IF stopped[s] THEN @ \cup {"fetch"} ELSE @]
  /\ UNCHANGED <<localStorage, clock, listening, webhookUrl, session, stopped, parsing,
                 finished, onceVars, events>>
  /\ LiveFrame("timer")

\* the fetch rejects or answers with a status that is not ok: catch and finally
FetchFails(s) ==
  /\ fetching[s] > 0
  /\ fetching' = [fetching EXCEPT ![s] = @ - 1]
  /\ Finally(s)
  /\ UNCHANGED <<localStorage, clock, listening, webhookUrl, session, stopped, parsing,
                 fetches, late, onceVars, events>>
  /\ LiveFrame("failed")

\* the fetch answers ok: the poll goes on to await res.json()
FetchResponds(s) ==
  /\ fetching[s] > 0
  /\ fetching' = [fetching EXCEPT ![s] = @ - 1]
  /\ parsing' = [parsing EXCEPT ![s] = @ + 1]
  /\ UNCHANGED <<localStorage, clock, listening, webhookUrl, session, stopped, timers,
                 fetches, finished, late, onceVars, events>>
  /\ LiveFrame("responded")

\* the body is not JSON: res.json() rejects, catch and finally
BodyFails(s) ==
  /\ parsing[s] > 0
  /\ parsing' = [parsing EXCEPT ![s] = @ - 1]
  /\ Finally(s)
  /\ UNCHANGED <<localStorage, clock, listening, webhookUrl, session, stopped, fetching,
                 fetches, late, onceVars, events>>
  /\ LiveFrame("failed")

\* a parsed value is recorded at the time of the clock; save[1] passes before
\* the position is saved for the last time with the calls save[2] failing,
\* and the next value is recorded at a later time
Record(data) ==
  \E x \in {Extracted(data)} : \E save \in Saves :
  \E r \in {ReceivedAt(events, localStorage, arrayPrototype, x, clock, clock + save[1],
                       save[2])} :
    /\ events' = r.events
    /\ localStorage' = r.ls
    /\ clock' = IF r.events = events THEN clock ELSE clock + 1

\* the body arrives: lines 355-364 and the finally block
BodyArrives(s) ==
  /\ parsing[s] > 0
  /\ parsing' = [parsing EXCEPT ![s] = @ - 1]
  /\ \E data \in Responses : Record(data)
  /\ late' = [late EXCEPT ![s] =
                IF ~stopped[s] THEN @
                ELSE @ \cup (IF events' # events THEN {"event"} ELSE {})
                       \cup (IF localStorage' # localStorage THEN {"position"} ELSE {})]
  /\ Finally(s)
  /\ UNCHANGED <<listening, webhookUrl, session, stopped, fetching, fetches, onceVars>>
  /\ LiveFrame("received")

\* the Fetch once button with an address entered, lines 394-400: a fetch is
\* started outside the sessions
FetchOnce ==
  /\ webhookUrl # NoUrl
  /\ Started < MaxPolls
  /\ onceFetching' = onceFetching + 1
  /\ onceFetches' = onceFetches + 1
  /\ UNCHANGED <<localStorage, clock, listening, webhookUrl, session, stopped, fetching,
                 parsing, timers, fetches, finished, late, onceParsing, plotted, events>>
  /\ LiveFrame("fetchOnce")

\* its fetch rejects or answers with a status that is not ok, lines 401, 422-424
OnceFails ==
  /\ onceFetching > 0
  /\ onceFetching' = onceFetching - 1
  /\ UNCHANGED <<localStorage, clock, listening, webhookUrl, session, stopped, fetching,
                 parsing, timers, fetches, finished, late, onceParsing, onceFetches, plotted,
                 events>>
  /\ LiveFrame("onceFailed")

\* its fetch answers ok: handleFetchOnce goes on to await res.json()
OnceResponds ==
  /\ onceFetching > 0
  /\ onceFetching' = onceFetching - 1
  /\ onceParsing' = onceParsing + 1
  /\ UNCHANGED <<localStorage, clock, listening, webhookUrl, session, stopped, fetching,
                 parsing, timers, fetches, finished, late, onceFetches, plotted, events>>
  /\ LiveFrame("onceResponded")

\* its body is not JSON, lines 402, 422-424
OnceBodyFails ==
  /\ onceParsing > 0
  /\ onceParsing' = onceParsing - 1
  /\ UNCHANGED <<localStorage, clock, listening, webhookUrl, session, stopped, fetching,
                 parsing, timers, fetches, finished, late, onceFetching, onceFetches, plotted,
                 events>>
  /\ LiveFrame("onceFailed")

\* its body arrives, lines 403-421
OnceBodyArrives ==
  /\ onceParsing > 0
  /\ onceParsing' = onceParsing - 1
  /\ \E data \in Responses : Record(data)
  /\ UNCHANGED <<listening, webhookUrl, session, stopped, fetching, parsing, timers, fetches,
                 finished, late, onceFetching, onceFetches, plotted>>
  /\ LiveFrame("onceReceived")

\* the Plot sample button, lines 428-450: the text of the sample box is
\* parsed and recorded; a text that is no JSON, and a value without
\* coordinates, end in the catch block
PlotSample(sample) ==
  /\ Started < MaxPolls
  /\ plotted' = plotted + 1
  /\ IF sample = BadText THEN UNCHANGED <<localStorage, clock, events>>
     ELSE Record(sample)
  /\ UNCHANGED <<listening, webhookUrl, session, stopped, fetching, parsing, timers, fetches,
                 finished, late, onceFetching, onceParsing, onceFetches>>
  /\ LiveFrame("sample")

NextPoll ==
  \/ Listen
  \/ StopListening
  \/ \E url \in Urls : EditUrl(url)
  \/ \E s \in Sessions : TimerFires(s)
  \/ \E s \in Sessions : FetchFails(s)
  \/ \E s \in Sessions : FetchResponds(s)
  \/ \E s \in Sessions : BodyFails(s)
  \/ \E s \in Sessions : BodyArrives(s)
  \/ FetchOnce
  \/ OnceFails
  \/ OnceResponds
  \/ OnceBodyFails
  \/ OnceBodyArrives
  \/ \E sample \in Samples : PlotSample(sample)

SpecPoll == InitEmpty /\ [][NextPoll]_vars

\* what another writer of the page may have left under the key of the
\* positions: nothing, an empty text, a text that is no JSON, null, a
\* number, an array
PositionTexts == {NoItem, EmptyText, BadText, Null, Whole(5), Arr(<<>>)}

InitSample ==
  InitWith({[EmptyStore EXCEPT ![TRACKER_POS_STORAGE] = v] : v \in PositionTexts})

\* {"tracker":{"id":"2000000000"},"lat":1,"lng":2}: an id that is an index far
\* past the end of a stored array
RFarIndex ==
  Obj(<< <<K_tracker, Obj(<< <<K_id, Str(S_2000000000)>> >>)>>,
         <<K_lat, Whole(1)>>, <<K_lng, Whole(2)>> >>)

NextSample == \E sample \in Samples \cup {RFarIndex} : PlotSample(sample)

\* samples plotted over a store that other code wrote
SpecSample == InitSample /\ [][NextSample]_vars

\* ------------------------------------------------------------------------
\* DeviceConfig (DeviceConfig.tsx)
\* ------------------------------------------------------------------------
MaxSubmits == 3
MaxConfigSteps == 1

\* JSON.parse(localStorage.getItem(key) || "[]") of lines 65-67 once it
\* parsed: no item and the empty text are read as "[]"
Parsed(ls, key) == IF ls[key] \in {NoItem, EmptyText} THEN Arr(<<>>) ELSE ls[key]

\* a call of a state setter: f names the setter or the updater passed to it
Update(f, a) == [f |-> f, a |-> a]

\* lines 63-72: the setter calls of the load effect.  The three texts are
\* parsed before the first setter is called, so nothing is set when one of
\* them does not parse; otherwise every text that holds an array is set.
Loaded(ls) ==
  IF \E k \in {LS_TRACKERS, LS_ASSETS, LS_LINKS} : ls[k] = BadText THEN <<>>
  ELSE SelectSeq(<<Update("setTrackers", Parsed(ls, LS_TRACKERS)),
                   Update("setAssets", Parsed(ls, LS_ASSETS)),
                   Update("setLinks", Parsed(ls, LS_LINKS))>>,
                 LAMBDA u : u.a.t = "array")

\* lines 108-118: the setter calls for the assetId and trackerId parameters
\* of the page address; params.get gives null for a parameter that is absent
Preselected(params) ==
  SelectSeq(<<Update("setSelectedAssetId", params.assetId),
              Update("setSelectedTrackerId", params.trackerId)>>,
            LAMBDA u : Truthy(u.a))

\* the page addresses: without parameters, and ?tab=link&assetId=a2&trackerId=t2
NoParams == [assetId |-> Null, trackerId |-> Null]
Params == {NoParams, [assetId |-> Str(S_a2), trackerId |-> Str(S_t2)]}

\* lines 74-84: localStorage.setItem(key, JSON.stringify(list))
Persist(ls, key, list) == [ls EXCEPT ![key] = JsonRoundTrip(Arr(list))]

\* the tracker form filled in, line 174
TrackerForm(id, battery) ==
  Obj(<< <<K_id, Str(id)>>, <<K_name, Str(S_G1)>>, <<K_model, Str(S_M)>>,
         <<K_batteryLevel, battery>>, <<K_status, Str(S_Active)>> >>)

\* the asset form filled in, lines 238-245
AssetForm(id) ==
  Obj(<< <<K_id, Str(id)>>, <<K_name, Str(S_X)>>, <<K_description, Str(S_D)>>,
         <<K_type, Str(S_Movable)>>, <<K_baseLocation, Str(S_B)>>,
         <<K_status, Str(S_Active)>> >>)

\* s without its i-th element
RemoveAt(s, i) == SubSeq(s, 1, i - 1) \o SubSeq(s, i + 1, Len(s))

\* a list has a null element: reading a property of it throws a TypeError
HasNull(list) == \E i \in 1..Len(list) : list[i] = Null

\* the state of the last render
Rendered ==
  [trackers |-> stateTrackers, assets |-> stateAssets, links |-> stateLinks,
   selectedAssetId |-> selectedAssetId, selectedTrackerId |-> selectedTrackerId,
   thrown |-> FALSE]

\* the state after one setter call.  The updaters of handleLink (lines
\* 284-293) and of Remove tracking (line 584) read a property of every link
\* and throw on a null link.
Apply(st, u) ==
  CASE u.f = "setTrackers" -> [st EXCEPT !.trackers = u.a.a]
    [] u.f = "setAssets" -> [st EXCEPT !.assets = u.a.a]
    [] u.f = "setLinks" -> [st EXCEPT !.links = u.a.a]
    [] u.f = "setSelectedAssetId" -> [st EXCEPT !.selectedAssetId = u.a]
    [] u.f = "setSelectedTrackerId" -> [st EXCEPT !.selectedTrackerId = u.a]
    [] u.f = "addTracker" -> [st EXCEPT !.trackers = Append(@, u.a)]
    [] u.f = "addAsset" -> [st EXCEPT !.assets = Append(@, u.a)]
    [] u.f = "link" ->
         IF HasNull(st.links) THEN [st EXCEPT !.thrown = TRUE]
         ELSE [st EXCEPT !.links =
                 Append(SelectSeq(@, LAMBDA l :
                          ~(Prop(l, K_assetId) = Prop(u.a, K_assetId)
                            /\ Prop(l, K_trackerId) = Prop(u.a, K_trackerId))), u.a)]
    [] u.f = "removeTracking" ->
         IF HasNull(st.links) THEN [st EXCEPT !.thrown = TRUE]
         ELSE [st EXCEPT !.links = SelectSeq(@, LAMBDA x : Prop(x, K_assetId) # u.a)]

\* the state after the setter calls q, in their order
RECURSIVE Applied(_, _)
Applied(st, q) == IF q = <<>> THEN st ELSE Applied(Apply(st, Head(q)), Tail(q))

\* the component function throws: lines 298-299 and the list items of the
\* returned markup (lines 375-376, 450-451, 479-480, 492-493, 557-559) read a
\* property of every tracker, asset and link
RenderThrows(st) == HasNull(st.trackers) \/ HasNull(st.assets) \/ HasNull(st.links)

\* the setters whose call gives a list a new identity, by the key of its
\* persist effect
Setters(key) ==
  CASE key = LS_TRACKERS -> {"setTrackers", "addTracker"}
    [] key = LS_ASSETS -> {"setAssets", "addAsset"}
    [] key = LS_LINKS -> {"setLinks", "link", "removeTracking"}

\* lines 74-84 after a render of st: the persist effect of every list that q set
Effects(ls, st, q) ==
  LET Written(store, key, list) ==
        IF \E i \in 1..Len(q) : q[i].f \in Setters(key) THEN Persist(store, key, list)
        ELSE store
  IN Written(Written(Written(ls, LS_TRACKERS, st.trackers), LS_ASSETS, st.assets),
             LS_LINKS, st.links)

\* the calls q are rendered.  An updater or the component function that
\* throws takes the component from the page, no error boundary being around
\* it: its state is gone and no effect runs.  Otherwise the render is
\* committed and the persist effects of the lists that were set run.
Flush(q) ==
  \E st \in {Applied(Rendered, q)} :
    /\ queued' = <<>>
    /\ IF st.thrown \/ RenderThrows(st)
       THEN /\ crashed' = TRUE
            /\ UNCHANGED <<localStorage, stateTrackers, stateAssets, stateLinks,
                           selectedAssetId, selectedTrackerId>>
       ELSE /\ crashed' = FALSE
            /\ stateTrackers' = st.trackers
            /\ stateAssets' = st.assets
            /\ stateLinks' = st.links
            /\ selectedAssetId' = st.selectedAssetId
            /\ selectedTrackerId' = st.selectedTrackerId
            /\ localStorage' = Effects(localStorage, st, q)

\* the component is on the page
Alive == mounted /\ ~crashed

\* the operations of DeviceConfig that write its lists to the store: the
\* first commit, and the renders after it
ConfigRenders == {"render", "select", "edit", "link", "removeTracking"}
ConfigWrites == {"mount"} \cup ConfigRenders

\* what DeviceConfig leaves alone besides its own state
ConfigFrame(name) ==
  /\ op' = name
  /\ pre' = localStorage
  /\ UNCHANGED <<clock, steps, payload, faults, thrown, raised, writes, now, repeated, feeds>>
  /\ UNCHANGED <<realmVars, liveVars>>

\* the component mounts with the empty lists of lines 54-56: the effects of
\* the first commit run in their order.  The load effect reads the store and
\* calls the setters, the three persist effects write the empty lists of the
\* first render, and the effect of lines 108-118 calls the setters of the
\* link form.  The lists that were read are in the state with the next
\* render.
Mount(params) ==
  /\ ~mounted
  /\ mounted' = TRUE
  /\ queued' = Loaded(localStorage) \o Preselected(params)
  /\ localStorage' =
       Persist(Persist(Persist(localStorage, LS_TRACKERS, <<>>), LS_ASSETS, <<>>),
               LS_LINKS, <<>>)
  /\ UNCHANGED <<crashed, stateTrackers, stateAssets, stateLinks, selectedAssetId,
                 selectedTrackerId, pendingTrackers, pendingAssets, submits>>
  /\ ConfigFrame("mount")

\* the render that React scheduled for setter calls made in an effect or
\* after an await
Render ==
  /\ Alive
  /\ queued # <<>>
  /\ Flush(queued)
  /\ UNCHANGED <<mounted, pendingTrackers, pendingAssets, submits>>
  /\ ConfigFrame("render")

\* handleAddTracker up to its await, lines 129-162: the checks, on the
\* trackers of the last render, and the API call
SubmitTracker(id, battery) ==
  /\ Alive
  /\ submits < MaxSubmits
  /\ ~(isNaN(battery) \/ Less(battery, Zero) \/ Less(Whole(100), battery))
  /\ ~\E i \in 1..Len(stateTrackers) : Prop(stateTrackers[i], K_id) = Str(id)
  /\ pendingTrackers' = Append(pendingTrackers, TrackerForm(id, battery))
  /\ submits' = submits + 1
  /\ UNCHANGED <<localStorage, mounted, crashed, stateTrackers, stateAssets, stateLinks,
                 selectedAssetId, selectedTrackerId, queued, pendingAssets>>
  /\ ConfigFrame("submitTracker")

\* handleAddTracker after its awaits, lines 164-186: setTrackers is called
\* with an updater that appends the tracker; on a component that is gone the
\* call does nothing
TrackerSaved(i) ==
  /\ i \in 1..Len(pendingTrackers)
  /\ queued' = IF crashed THEN queued
               ELSE Append(queued, Update("addTracker", pendingTrackers[i]))
  /\ pendingTrackers' = RemoveAt(pendingTrackers, i)
  /\ UNCHANGED <<localStorage, mounted, crashed, stateTrackers, stateAssets, stateLinks,
                 selectedAssetId, selectedTrackerId, pendingAssets, submits>>
  /\ ConfigFrame("trackerSaved")

\* the API call failed, lines 164-166 and 188-194
TrackerRejected(i) ==
  /\ i \in 1..Len(pendingTrackers)
  /\ pendingTrackers' = RemoveAt(pendingTrackers, i)
  /\ UNCHANGED <<localStorage, mounted, crashed, stateTrackers, stateAssets, stateLinks,
                 selectedAssetId, selectedTrackerId, queued, pendingAssets, submits>>
  /\ ConfigFrame("trackerRejected")

\* handleAddAsset up to its await, lines 197-226
SubmitAsset(id) ==
  /\ Alive
  /\ submits < MaxSubmits
  /\ ~\E i \in 1..Len(stateAssets) : Prop(stateAssets[i], K_id) = Str(id)
  /\ pendingAssets' = Append(pendingAssets, AssetForm(id))
  /\ submits' = submits + 1
  /\ UNCHANGED <<localStorage, mounted, crashed, stateTrackers, stateAssets, stateLinks,
                 selectedAssetId, selectedTrackerId, queued, pendingTrackers>>
  /\ ConfigFrame("submitAsset")

\* handleAddAsset after its awaits, lines 228-258
AssetSaved(i) ==
  /\ i \in 1..Len(pendingAssets)
  /\ queued' = IF crashed THEN queued
               ELSE Append(queued, Update("addAsset", pendingAssets[i]))
  /\ pendingAssets' = RemoveAt(pendingAssets, i)
  /\ UNCHANGED <<localStorage, mounted, crashed, stateTrackers, stateAssets, stateLinks,
                 selectedAssetId, selectedTrackerId, pendingTrackers, submits>>
  /\ ConfigFrame("assetSaved")

\* the API call failed, lines 228-230 and 260-266
AssetRejected(i) ==
  /\ i \in 1..Len(pendingAssets)
  /\ pendingAssets' = RemoveAt(pendingAssets, i)
  /\ UNCHANGED <<localStorage, mounted, crashed, stateTrackers, stateAssets, stateLinks,
                 selectedAssetId, selectedTrackerId, queued, pendingTrackers, submits>>
  /\ ConfigFrame("assetRejected")

\* A click or a choice in a list is rendered before the page handles anything
\* else: the setter calls of its handler come after the calls that wait, and
\* the render and its effects are part of the step.
Clicked(calls, name) ==
  /\ Alive
  /\ submits < MaxSubmits
  /\ submits' = submits + 1
  /\ Flush(queued \o calls)
  /\ UNCHANGED <<mounted, pendingTrackers, pendingAssets>>
  /\ ConfigFrame(name)

\* an asset is chosen in the link form, lines 474-482: the value of an item
\* is the id of an asset of the last render
SelectAsset(i) ==
  /\ i \in 1..Len(stateAssets)
  /\ Prop(stateAssets[i], K_id).t = "string"
  /\ Prop(stateAssets[i], K_id) # selectedAssetId
  /\ Clicked(<<Update("setSelectedAssetId", Prop(stateAssets[i], K_id))>>, "select")

\* a tracker is chosen in the link form, lines 487-495
SelectTracker(j) ==
  /\ j \in 1..Len(stateTrackers)
  /\ Prop(stateTrackers[j], K_id).t = "string"
  /\ Prop(stateTrackers[j], K_id) # selectedTrackerId
  /\ Clicked(<<Update("setSelectedTrackerId", Prop(stateTrackers[j], K_id))>>, "select")

\* the Edit button of a link, lines 567-579: the link form takes the asset
\* and the tracker of the link
Edit(n) ==
  /\ n \in 1..Len(stateLinks)
  /\ Clicked(<<Update("setSelectedAssetId", Prop(stateLinks[n], K_assetId)),
               Update("setSelectedTrackerId", Prop(stateLinks[n], K_trackerId))>>, "edit")

\* handleLink, lines 269-295: the checks are made on the choices and the
\* links of the last render.  The status is the one the form holds, chosen
\* among the items of lines 542-543 or set by Edit (line 574) before the
\* form is submitted.
Link(status) ==
  /\ Truthy(selectedAssetId)
  /\ Truthy(selectedTrackerId)
  /\ LET taken == {n \in 1..Len(stateLinks) :
                     Prop(stateLinks[n], K_trackerId) = selectedTrackerId}
     IN taken # {} => Prop(stateLinks[Min(taken)], K_assetId) = selectedAssetId
  /\ Clicked(<<Update("link", Obj(<< <<K_assetId, selectedAssetId>>,
                                     <<K_trackerId, selectedTrackerId>>,
                                     <<K_status, Str(status)>> >>))>>, "link")

\* the Remove tracking button of a link, lines 580-592: every link of its
\* asset is removed
RemoveTracking(n) ==
  /\ n \in 1..Len(stateLinks)
  /\ Clicked(<<Update("removeTracking", Prop(stateLinks[n], K_assetId))>>, "removeTracking")

\* the payloads that reach the reconciler while DeviceConfig is on the page
PayloadsConfig == {PBindA1T1, PBindA2T2}

WebhookConfig ==
  /\ steps < MaxConfigSteps
  /\ \E p \in PayloadsConfig : Reconcile(p, {}, 0)
  /\ UNCHANGED feeds

\* the stores DeviceConfig may find when it mounts: empty, seeded, and the
\* seeded one with a null asset, with an empty text for the links, with a
\* text for the trackers that is no JSON, and with a number for the assets
ConfigStores ==
  {EmptyStore, SeededStore,
   [SeededStore EXCEPT ![LS_ASSETS] = Arr(<<Null>>)],
   [SeededStore EXCEPT ![LS_LINKS] = EmptyText],
   [SeededStore EXCEPT ![LS_TRACKERS] = BadText],
   [SeededStore EXCEPT ![LS_ASSETS] = Whole(5)]}

InitConfig == InitWith(ConfigStores)

NextConfig ==
  \/ \E params \in Params : Mount(params)
  \/ Render
  \/ \E id \in {S_t1, S_t2}, battery \in {Whole(50), Whole(150)} : SubmitTracker(id, battery)
  \/ \E i \in DOMAIN pendingTrackers : TrackerSaved(i)
  \/ \E i \in DOMAIN pendingTrackers : TrackerRejected(i)
  \/ \E id \in {S_a1} : SubmitAsset(id)
  \/ \E i \in DOMAIN pendingAssets : AssetSaved(i)
  \/ \E i \in DOMAIN pendingAssets : AssetRejected(i)
  \/ \E i \in DOMAIN stateAssets : SelectAsset(i)
  \/ \E j \in DOMAIN stateTrackers : SelectTracker(j)
  \/ \E n \in DOMAIN stateLinks : Edit(n)
  \/ \E status \in {S_Active, S_Inactive} : Link(status)
  \/ \E n \in DOMAIN stateLinks : RemoveTracking(n)
  \/ WebhookConfig

SpecConfig == InitConfig /\ [][NextConfig]_vars

\* ------------------------------------------------------------------------
\* Reading the store and the last payload
\* ------------------------------------------------------------------------
\* the list under a key, empty when the key holds no array
StoredList(ls, key) == IF ls[key].t = "array" THEN ls[key].a ELSE <<>>
\* the map under a key, empty when the key holds no object
StoredMap(ls, key) == IF ls[key].t = "object" THEN ls[key] ELSE Obj(<<>>)

AssetsOf(ls) == StoredList(ls, LS_ASSETS)
TrackersOf(ls) == StoredList(ls, LS_TRACKERS)
LinksOf(ls) == StoredList(ls, LS_LINKS)
PositionOf(ls, tid) == Prop(StoredMap(ls, LS_TRACKER_POS), tid.s)
HistoryOf(ls, tid) ==
  LET h == Prop(StoredMap(ls, LS_TRACKING_LOGS), tid.s)
  IN IF h.t = "array" THEN h.a ELSE <<>>

\* what the last payload resolves to; a conversion that throws leaves nothing:
\* no coordinates, no identifier
PayloadAsset == resolveAssetFields(Unwrap(payload))
PayloadTracker == resolveTrackerFields(Unwrap(payload))
PayloadTrack ==
  IF IsError(resolveTrackingFields(Unwrap(payload), now[1]))
  THEN TrackingFields(NaN, NaN, Undefined, Undefined)
  ELSE resolveTrackingFields(Unwrap(payload), now[1])
Derived(f) == IF IsError(DeriveId(f)) THEN Undefined ELSE DeriveId(f)
PayloadAssetId == Derived(PayloadAsset)
PayloadTrackerId == Derived(PayloadTracker)
\* the guard of the position phase, line 320
PayloadHasCoordinates ==
  ~isNaN(PayloadTrack.lat) /\ ~isNaN(PayloadTrack.lng) /\ Truthy(PayloadTrackerId)

HasLink(ls, aid, tid) ==
  \E i \in 1..Len(LinksOf(ls)) :
    Prop(LinksOf(ls)[i], K_assetId) = aid /\ Prop(LinksOf(ls)[i], K_trackerId) = tid

LinksOfTracker(ls, tid) ==
  {i \in 1..Len(LinksOf(ls)) : Prop(LinksOf(ls)[i], K_trackerId) = tid}

\* ------------------------------------------------------------------------
\* Properties
\* ------------------------------------------------------------------------

\* C1: tracker exclusivity. From a store in which every trackerId occurs in at
\* most one link, after any sequence of reconciliations no trackerId occurs in
\* more than one entry of the link list.
C1_TrackerExclusivity ==
  \A i, j \in 1..Len(LinksOf(localStorage)) :
    i # j => Prop(LinksOf(localStorage)[i], K_trackerId)
               # Prop(LinksOf(localStorage)[j], K_trackerId)

\* a reconciliation rebound a linked tracker while another tracker stays linked
C1_Witness ==
  /\ op = "reconcile"
  /\ Truthy(PayloadAssetId) /\ Truthy(PayloadTrackerId)
  /\ \E i \in LinksOfTracker(pre, PayloadTrackerId) :
       Prop(LinksOf(pre)[i], K_assetId) # PayloadAssetId
  /\ Len(LinksOf(localStorage)) >= 2

\* C2: rebinding step. When the link list holds (a1,t1) and a payload resolving
\* to asset a2 # a1 and tracker t1 is reconciled, afterwards (a1,t1) is gone,
\* (a2,t1) is present and exactly one link references t1.
C2_Rebinding ==
  (op = "reconcile" /\ Truthy(PayloadAssetId) /\ Truthy(PayloadTrackerId)) =>
    \A i \in LinksOfTracker(pre, PayloadTrackerId) :
      Prop(LinksOf(pre)[i], K_assetId) # PayloadAssetId =>
        /\ ~HasLink(localStorage, Prop(LinksOf(pre)[i], K_assetId), PayloadTrackerId)
        /\ HasLink(localStorage, PayloadAssetId, PayloadTrackerId)
        /\ Cardinality(LinksOfTracker(localStorage, PayloadTrackerId)) = 1

\* C3: idempotence. Reconciling the same payload twice in a row leaves the
\* asset, tracker and link lists as they are after reconciling it once; the
\* history of the payload's tracker grows by one entry per submission when the
\* payload bears coordinates (up to the cap), the position keeps its
\* coordinates, and no other tracker's history changes.
C3_Idempotent ==
  repeated =>
    /\ localStorage[LS_ASSETS] = pre[LS_ASSETS]
    /\ localStorage[LS_TRACKERS] = pre[LS_TRACKERS]
    /\ localStorage[LS_LINKS] = pre[LS_LINKS]
    /\ Keys(StoredMap(localStorage, LS_TRACKING_LOGS)) = Keys(StoredMap(pre, LS_TRACKING_LOGS))
    /\ \A k \in Keys(StoredMap(pre, LS_TRACKING_LOGS)) :
         (~PayloadHasCoordinates \/ k # PayloadTrackerId.s) =>
           HistoryOf(localStorage, Str(k)) = HistoryOf(pre, Str(k))
    /\ ~PayloadHasCoordinates => localStorage[LS_TRACKER_POS] = pre[LS_TRACKER_POS]
    /\ PayloadHasCoordinates =>
         /\ Len(HistoryOf(localStorage, PayloadTrackerId))
              = IF Len(HistoryOf(pre, PayloadTrackerId)) < HISTORY_CAP
                THEN Len(HistoryOf(pre, PayloadTrackerId)) + 1 ELSE HISTORY_CAP
         /\ Prop(PositionOf(localStorage, PayloadTrackerId), K_lat)
              = Prop(PositionOf(pre, PayloadTrackerId), K_lat)
         /\ Prop(PositionOf(localStorage, PayloadTrackerId), K_lng)
              = Prop(PositionOf(pre, PayloadTrackerId), K_lng)

\* the stored asset with an id, Null when there is none
AssetById(ls, id) ==
  LET idx == FindIndex(AssetsOf(ls), K_id, id)
  IN IF idx > 0 THEN AssetsOf(ls)[idx] ELSE Null

\* the store holds the asset {id:"a1", name:"X", status:"Active"}
HoldsA1XActive(ls) ==
  /\ OptProp(AssetById(ls, Str(S_a1)), K_name) = Str(S_X)
  /\ OptProp(AssetById(ls, Str(S_a1)), K_status) = Str(S_Active)

\* C4 as stated: with the asset {id:"a1", name:"X", status:"Active"} stored, the
\* payload {id:"a1", status:"Maintenance"} leaves it as
\* {id:"a1", name:"X", status:"Maintenance"}.
C4_Original ==
  (op = "reconcile" /\ payload = PIdStatus /\ HoldsA1XActive(pre)) =>
    /\ OptProp(AssetById(localStorage, Str(S_a1)), K_name) = Str(S_X)
    /\ OptProp(AssetById(localStorage, Str(S_a1)), K_status) = Str(S_Maintenance)

\* C4 amended: with that asset stored, the payload
\* {"ID":"a1","Asset Status":"Maintenance"} leaves it with name X and status
\* Maintenance; under the key "status" the value is the tracking status and the
\* asset keeps name X and status Active.
C4_Amended ==
  /\ (op = "reconcile" /\ payload = PIdAssetStatus /\ HoldsA1XActive(pre)) =>
       /\ OptProp(AssetById(localStorage, Str(S_a1)), K_name) = Str(S_X)
       /\ OptProp(AssetById(localStorage, Str(S_a1)), K_status) = Str(S_Maintenance)
  /\ (op = "reconcile" /\ payload = PIdStatus /\ HoldsA1XActive(pre)) =>
       /\ OptProp(AssetById(localStorage, Str(S_a1)), K_name) = Str(S_X)
       /\ OptProp(AssetById(localStorage, Str(S_a1)), K_status) = Str(S_Active)

\* the asset-status payload was reconciled over the stored asset
C4_Witness ==
  /\ op = "reconcile" /\ payload = PIdAssetStatus /\ HoldsA1XActive(pre)
  /\ OptProp(AssetById(localStorage, Str(S_a1)), K_status) = Str(S_Maintenance)

\* the payload of the last reconciliation resolves to the stored asset at this
\* index of the list
MergedAssetIndex ==
  IF op = "reconcile" /\ (Truthy(PayloadAssetId) \/ Truthy(PayloadAsset.name))
  THEN FindIndex(AssetsOf(pre), K_id, PayloadAssetId) ELSE 0

\* C5: asset merge keeps absent fields. When the payload resolves to the id of
\* a stored asset, the record stays at its list position with its id; name and
\* status take the payload's value when it is non-null and keep the stored one
\* otherwise; description, type and baseLocation keep their stored values; no
\* other record changes. This holds of every reconciliation that writes the
\* asset list, also one that a later phase ends with an exception; one that
\* does not write the asset list leaves it as it was.
C5_AssetMergeKeepsAbsent ==
  MergedAssetIndex > 0 =>
    LET old == AssetsOf(pre)[MergedAssetIndex]
        new == AssetsOf(localStorage)[MergedAssetIndex]
    IN IF LS_ASSETS \notin Range(writes) THEN localStorage[LS_ASSETS] = pre[LS_ASSETS] ELSE
       /\ Len(AssetsOf(localStorage)) = Len(AssetsOf(pre))
       /\ \A j \in 1..Len(AssetsOf(pre)) :
            j # MergedAssetIndex => AssetsOf(localStorage)[j] = AssetsOf(pre)[j]
       /\ Keys(new) = {K_id, K_name, K_description, K_type, K_baseLocation, K_status}
       /\ Prop(new, K_id) = Prop(old, K_id)
       /\ Prop(new, K_name) = IF Nullish(PayloadAsset.name) THEN Prop(old, K_name)
                               ELSE PayloadAsset.name
       /\ Prop(new, K_status) = IF Nullish(PayloadAsset.status) THEN Prop(old, K_status)
                                 ELSE PayloadAsset.status
       /\ Prop(new, K_description) = Prop(old, K_description)
       /\ Prop(new, K_type) = Prop(old, K_type)
       /\ Prop(new, K_baseLocation) = Prop(old, K_baseLocation)

\* a payload with a name, a null status and stray description and type keys was
\* merged into an asset that DeviceConfig had created
C5_Witness ==
  /\ MergedAssetIndex > 0
  /\ payload = PRenameA1
  /\ Prop(AssetsOf(pre)[MergedAssetIndex], K_description) = Str(S_D)
  /\ Prop(AssetsOf(pre)[MergedAssetIndex], K_type) = Str(S_Stationery)
  /\ Prop(AssetsOf(pre)[MergedAssetIndex], K_name) = Str(S_X)
  /\ Prop(AssetsOf(localStorage)[MergedAssetIndex], K_name) = Str(S_Y)

\* the payload of the last reconciliation resolves to the stored tracker at this
\* index of the list
MergedTrackerIndex ==
  IF op = "reconcile" /\ (Truthy(PayloadTrackerId) \/ Truthy(PayloadTracker.name))
  THEN FindIndex(TrackersOf(pre), K_id, PayloadTrackerId) ELSE 0

\* C6: tracker merge changes only name, batteryLevel and status. When the
\* payload resolves to the id of a stored tracker, that tracker's id and model
\* are unchanged, whatever the payload contains.
C6_TrackerMergeKeepsIdModel ==
  MergedTrackerIndex > 0 =>
    LET old == TrackersOf(pre)[MergedTrackerIndex]
        new == TrackersOf(localStorage)[MergedTrackerIndex]
    IN /\ Len(TrackersOf(localStorage)) = Len(TrackersOf(pre))
       /\ Prop(new, K_id) = Prop(old, K_id)
       /\ Prop(new, K_model) = Prop(old, K_model)

\* a payload with a model key and a new name was merged into a tracker that has a model
C6_Witness ==
  /\ MergedTrackerIndex > 0
  /\ payload = PTrackerT1
  /\ Prop(TrackersOf(pre)[MergedTrackerIndex], K_model) = Str(S_M)
  /\ Prop(TrackersOf(pre)[MergedTrackerIndex], K_name) = Str(S_G1)
  /\ Prop(TrackersOf(localStorage)[MergedTrackerIndex], K_name) = Str(S_G2)

\* C7: history bound and FIFO eviction. No tracker's history has more than 500
\* entries; the history of the fed tracker is the most recent min(feeds, 500)
\* of its coordinate-bearing submissions in arrival order (the k-th submission
\* carries latitude k); and the history of the tracker of any coordinate-bearing
\* reconciliation ends with that submission, one entry longer up to the cap.
C7_HistoryBoundFifo ==
  LET h == HistoryOf(localStorage, Str(S_t1))
      new == HistoryOf(localStorage, PayloadTrackerId)
      old == HistoryOf(pre, PayloadTrackerId)
  IN /\ \A k \in Keys(StoredMap(localStorage, LS_TRACKING_LOGS)) :
          Len(HistoryOf(localStorage, Str(k))) <= HISTORY_CAP
     /\ Len(h) = IF feeds < HISTORY_CAP THEN feeds ELSE HISTORY_CAP
     /\ \A i \in 1..Len(h) :
          /\ Prop(h[i], K_lat) = Whole(feeds - Len(h) + i)
          /\ Prop(h[i], K_receivedAt) = Whole(feeds - Len(h) + i)
     /\ (op = "reconcile" /\ PayloadHasCoordinates) =>
          /\ Len(new) = IF Len(old) < HISTORY_CAP THEN Len(old) + 1 ELSE HISTORY_CAP
          /\ Prop(new[Len(new)], K_lat) = JsonRoundTrip(PayloadTrack.lat)
          /\ Prop(new[Len(new)], K_lng) = JsonRoundTrip(PayloadTrack.lng)

\* C8: the current position is last-write-wins by processing order. After a
\* coordinate-bearing reconciliation for a tracker its current position has the
\* payload's lat and lng, whatever the receivedAt of the position it replaces.
C8_LastWriteWins ==
  (op = "reconcile" /\ PayloadHasCoordinates) =>
    /\ Prop(PositionOf(localStorage, PayloadTrackerId), K_lat) = JsonRoundTrip(PayloadTrack.lat)
    /\ Prop(PositionOf(localStorage, PayloadTrackerId), K_lng) = JsonRoundTrip(PayloadTrack.lng)

\* C9: never throws. Whatever the payload, the stored content and the failing
\* localStorage calls, no exception leaves processTrackingWebhook.
C9_NeverThrows == ~raised

\* an exception was thrown inside a reconciliation and did not leave it
C9_Witness == op = "reconcile" /\ thrown /\ ~raised

PhaseOrder == <<LS_ASSETS, LS_TRACKERS, LS_LINKS, LS_TRACKER_POS, LS_TRACKING_LOGS>>

\* C10 as stated: when a store read or write fails during a reconciliation the
\* reconciliation stops there and no later phase writes its collection.
C10_Original ==
  op = "reconcile" =>
    /\ \A i \in 1..5 :
         (SetFails(PhaseOrder[i]) \in faults /\ PhaseOrder[i] \in Range(writes)) =>
           \A j \in (i + 1)..5 : localStorage[PhaseOrder[j]] = pre[PhaseOrder[j]]
    /\ \A i \in 1..3 :
         GetFails(PhaseOrder[i]) \in faults => localStorage = pre

\* the store of the last reconciliation with the keys whose read failed emptied
PreAsRead == [k \in LSKeys |-> IF GetFails(k) \in faults THEN NoItem ELSE pre[k]]
\* the last reconciliation without its failures
FaultFree == processTrackingWebhook(PreAsRead, preProto, payload, {}, now)

\* C10 amended: a failing store read or write is swallowed inside readJSON or
\* writeJSON and the reconciliation goes on. A failed read counts as an empty
\* collection, a failed write leaves that one collection as it was, and every
\* phase runs and writes as it would without the failure.
C10_Amended ==
  (op = "reconcile" /\ faults # {}) =>
    /\ thrown = FaultFree.thrown
    /\ writes = FaultFree.writes
    /\ \A k \in LSKeys :
         localStorage[k] =
           IF SetFails(k) \in faults \/ k \notin Range(writes) THEN pre[k]
           ELSE FaultFree.ls[k]

\* writing the asset list failed and the tracker list, the link list, the
\* position and the history were written all the same
C10_Witness ==
  /\ op = "reconcile"
  /\ faults = {SetFails(LS_ASSETS)}
  /\ writes = PhaseOrder
  /\ localStorage[LS_ASSETS] = pre[LS_ASSETS]
  /\ \A i \in 2..5 : localStorage[PhaseOrder[i]] # pre[PhaseOrder[i]]


\* the last payload resolves to no asset id and no asset name (resp. tracker)
NoAssetResolves == PayloadAssetId = Undefined /\ ~Truthy(PayloadAsset.name)
NoTrackerResolves == PayloadTrackerId = Undefined /\ ~Truthy(PayloadTracker.name)
\* both coordinates of the last payload are finite numbers
FiniteCoordinates == PayloadTrack.lat.t = "number" /\ PayloadTrack.lng.t = "number"

\* C11: an unidentifiable entity skips only its own upsert. With no asset id or
\* name but a tracker id and finite coordinates, the asset list and the link
\* list are unchanged, the tracker is in the tracker list, its position is the
\* payload's and its history has one more entry (up to the cap). With no
\* tracker id or name but an asset, the asset is in the asset list and
\* trackers, links, positions and histories are unchanged.
C11_SkipsOnlyOwnUpsert ==
  op = "reconcile" =>
    /\ (NoAssetResolves /\ Truthy(PayloadTrackerId) /\ FiniteCoordinates) =>
         /\ localStorage[LS_ASSETS] = pre[LS_ASSETS]
         /\ localStorage[LS_LINKS] = pre[LS_LINKS]
         /\ FindIndex(TrackersOf(localStorage), K_id, PayloadTrackerId) > 0
         /\ Len(TrackersOf(localStorage)) =
              IF FindIndex(TrackersOf(pre), K_id, PayloadTrackerId) > 0
              THEN Len(TrackersOf(pre)) ELSE Len(TrackersOf(pre)) + 1
         /\ Prop(PositionOf(localStorage, PayloadTrackerId), K_lat) = PayloadTrack.lat
         /\ Prop(PositionOf(localStorage, PayloadTrackerId), K_lng) = PayloadTrack.lng
         /\ Len(HistoryOf(localStorage, PayloadTrackerId)) =
              IF Len(HistoryOf(pre, PayloadTrackerId)) < HISTORY_CAP
              THEN Len(HistoryOf(pre, PayloadTrackerId)) + 1 ELSE HISTORY_CAP
    /\ (NoTrackerResolves /\ (Truthy(PayloadAssetId) \/ Truthy(PayloadAsset.name))) =>
         /\ FindIndex(AssetsOf(localStorage), K_id, PayloadAssetId) > 0
         /\ Len(AssetsOf(localStorage)) =
              IF FindIndex(AssetsOf(pre), K_id, PayloadAssetId) > 0
              THEN Len(AssetsOf(pre)) ELSE Len(AssetsOf(pre)) + 1
         /\ localStorage[LS_TRACKERS] = pre[LS_TRACKERS]
         /\ localStorage[LS_LINKS] = pre[LS_LINKS]
         /\ localStorage[LS_TRACKER_POS] = pre[LS_TRACKER_POS]
         /\ localStorage[LS_TRACKING_LOGS] = pre[LS_TRACKING_LOGS]

\* the coordinate values as the last payload supplies them, before Number()
RawLat ==
  CoalesceAll(<<get(Unwrap(payload), K_Latitude), get(Unwrap(payload), K_latitude),
                get(Unwrap(payload), K_lat)>>)
RawLng ==
  CoalesceAll(<<get(Unwrap(payload), K_Longitude), get(Unwrap(payload), K_longitude),
                get(Unwrap(payload), K_lng), get(Unwrap(payload), K_long),
                get(Unwrap(payload), K_lon)>>)

\* a supplied value is a finite number or a non-empty text that reads as one;
\* a missing value, an empty string, a boolean, null, other text and an
\* infinite value are not
ParsesFinite(v) ==
  \/ v.t = "number"
  \/ v.t = "string" /\ trim(v.s) # <<>> /\ StringToNumber(v.s).t = "number"

\* C12: position/history phase guard. The current-position map and the history
\* map are modified by a reconciliation only if both coordinates of the payload
\* parse as finite numbers and a tracker id was derivable.
C12_PositionGuard ==
  (op = "reconcile"
     /\ ~(ParsesFinite(RawLat) /\ ParsesFinite(RawLng) /\ Truthy(PayloadTrackerId))) =>
    /\ localStorage[LS_TRACKER_POS] = pre[LS_TRACKER_POS]
    /\ localStorage[LS_TRACKING_LOGS] = pre[LS_TRACKING_LOGS]

\* the battery value as the last payload supplies it
RawBattery ==
  CoalesceAll(<<get(Unwrap(payload), K_GPS_Tracker_Battery), get(Unwrap(payload), K_battery),
                get(Unwrap(payload), K_batteryLevel)>>)

\* the digits of the number v before the decimal point, and whether what
\* follows them is at least a half, resp. more than a half
WholeDigits(v) == SubSeq(v.m, 1, Len(v.m) + v.x)
HalfOrMore(v) == Len(v.m) + v.x >= 0 /\ v.m[Len(v.m) + v.x + 1] >= 5
OverHalf(v) == HalfOrMore(v) /\ ~(v.x = 0 - 1 /\ v.m[Len(v.m)] = 5)

\* the integer nearest to the number v, halves upwards: the k with
\* k - 1/2 <= v < k + 1/2
Nearest(v) ==
  IF v.x >= 0 THEN v
  ELSE IF (IF v.neg THEN OverHalf(v) ELSE HalfOrMore(v))
       THEN Normal(v.neg, Incr(WholeDigits(v)), 0)
       ELSE Normal(v.neg, WholeDigits(v), 0)

\* the reference rule of the battery normalizer on a value as Number() reads it:
\* absent (null) unless finite, a fraction up to 1 times 100, a percentage up to
\* 100 rounded, 100 above that
ReferenceBattery(v) ==
  LET num == IF Nullish(v) THEN NaN ELSE ToNumber(v)
  IN IF num.t # "number" THEN Null
     ELSE IF LessEq(num, Whole(1)) THEN Nearest(Normal(num.neg, num.m, num.x + 2))
     ELSE IF LessEq(num, Whole(100)) THEN Nearest(num)
     ELSE Whole(100)

\* the stored tracker with an id, Null when there is none
TrackerById(ls, id) ==
  LET idx == FindIndex(TrackersOf(ls), K_id, id)
  IN IF idx > 0 THEN TrackersOf(ls)[idx] ELSE Null

\* C13: the battery normalizer agrees with the reference rule for every input.
\* After a tracker upsert the stored batteryLevel is the reference rule's value
\* for the payload's battery, or the previous level (0 for a new tracker) when
\* the rule yields absent.
C13_BatteryReference ==
  (op = "reconcile" /\ Truthy(PayloadTrackerId)) =>
    OptProp(TrackerById(localStorage, PayloadTrackerId), K_batteryLevel)
      = CoalesceAll(<<ReferenceBattery(RawBattery),
                      OptProp(TrackerById(pre, PayloadTrackerId), K_batteryLevel),
                      Whole(0)>>)

\* C14: battery range invariant. Starting from an empty store, every stored
\* tracker's batteryLevel is an integer between 0 and 100 inclusive.
C14_BatteryRange ==
  \A i \in 1..Len(TrackersOf(localStorage)) :
    LET level == OptProp(TrackersOf(localStorage)[i], K_batteryLevel)
    IN /\ level.t = "number"
       /\ IsWhole(level)
       /\ LessEq(Zero, level) /\ LessEq(level, Whole(100))

\* the maximal runs of lower-case letters and digits of a text, joined by hyphens
RECURSIVE JoinRuns(_, _, _)
JoinRuns(s, run, done) ==
  IF s = <<>> THEN
    IF run = <<>> THEN done
    ELSE IF done = <<>> THEN run ELSE done \o <<"-">> \o run
  ELSE IF Head(s) \in Range(LowerLetters) \cup Range(Digits) THEN JoinRuns(Tail(s), Append(run, Head(s)), done)
  ELSE IF run = <<>> THEN JoinRuns(Tail(s), <<>>, done)
  ELSE JoinRuns(Tail(s), <<>>, IF done = <<>> THEN run ELSE done \o <<"-">> \o run)

\* the value has a string form with a character that is not white space
NonBlank(v) ==
  /\ ~Nullish(v) /\ ~ToPrimitiveThrows(v)
  /\ \E i \in 1..Len(ToStringJS(v)) : ToStringJS(v)[i] \notin WhiteSpace

\* the identifier rule: the explicit id verbatim when it has a string form
\* with a character that is not white space, else the hyphenated lower-case
\* name
ReferenceId(f) ==
  IF NonBlank(f.id) THEN Str(ToStringJS(f.id))
  ELSE Str(JoinRuns(toLowerCase(f.name.s), <<>>, <<>>))

\* the rule applies: an explicit id with a non-blank string form, or a name
\* that is a non-empty string
IdRuleApplies(f) == NonBlank(f.id) \/ (f.name.t = "string" /\ f.name.s # <<>>)

\* the record a reconciliation stored for an entity: the one found by the id in
\* the list before, or the one appended
StoredFor(before, after, id) ==
  IF FindIndex(before, K_id, id) > 0 THEN after[FindIndex(before, K_id, id)]
  ELSE IF Len(after) = Len(before) + 1 THEN after[Len(after)]
  ELSE Null

\* C15: identifier derivation. The id that a reconciliation derives for the
\* asset and for the tracker is the explicit id verbatim when its string form
\* is not blank, else the name lower-cased with every run of other characters
\* than a-z and 0-9 replaced by one hyphen and no hyphen at either end; the
\* record it stores for the asset, resp. the tracker, carries that id.
C15_IdentifierDerivation ==
  op = "reconcile" =>
    /\ IdRuleApplies(PayloadAsset) =>
         /\ DeriveId(PayloadAsset) = ReferenceId(PayloadAsset)
         /\ LS_ASSETS \in Range(writes) =>
              OptProp(StoredFor(AssetsOf(pre), AssetsOf(localStorage),
                                ReferenceId(PayloadAsset)), K_id) = ReferenceId(PayloadAsset)
    /\ IdRuleApplies(PayloadTracker) =>
         /\ DeriveId(PayloadTracker) = ReferenceId(PayloadTracker)
         /\ LS_TRACKERS \in Range(writes) =>
              OptProp(StoredFor(TrackersOf(pre), TrackersOf(localStorage),
                                ReferenceId(PayloadTracker)), K_id) = ReferenceId(PayloadTracker)

\* C16: the end-to-end scenario. From an empty store the payload
\* {"Output":{"Asset ID":"A1","Asset Name":"Truck","latitude":12.97,
\* "longitude":77.59,"tracker":{"id":"T1","name":"GPS1"}}} yields exactly one
\* asset (A1, Truck), one tracker (T1, GPS1), one link (A1, T1, Active), the
\* position (12.97, 77.59) for T1 and a history of T1 with exactly one entry.
C16_EndToEnd ==
  (op = "reconcile" /\ payload = PEndToEnd /\ pre = EmptyStore) =>
    /\ Len(AssetsOf(localStorage)) = 1
    /\ Prop(AssetsOf(localStorage)[1], K_id) = Str(S_A1)
    /\ Prop(AssetsOf(localStorage)[1], K_name) = Str(S_Truck)
    /\ Len(TrackersOf(localStorage)) = 1
    /\ Prop(TrackersOf(localStorage)[1], K_id) = Str(S_T1)
    /\ Prop(TrackersOf(localStorage)[1], K_name) = Str(S_GPS1)
    /\ LinksOf(localStorage) =
         << Obj(<< <<K_assetId, Str(S_A1)>>, <<K_trackerId, Str(S_T1)>>,
                   <<K_status, Str(S_Active)>> >>) >>
    /\ Keys(StoredMap(localStorage, LS_TRACKER_POS)) = {S_T1}
    /\ Prop(PositionOf(localStorage, Str(S_T1)), K_lat) = Num(12970)
    /\ Prop(PositionOf(localStorage, Str(S_T1)), K_lng) = Num(77590)
    /\ Keys(StoredMap(localStorage, LS_TRACKING_LOGS)) = {S_T1}
    /\ Len(HistoryOf(localStorage, Str(S_T1))) = 1
    /\ Prop(HistoryOf(localStorage, Str(S_T1))[1], K_lat) = Num(12970)
    /\ Prop(HistoryOf(localStorage, Str(S_T1))[1], K_lng) = Num(77590)

\* the scenario ran on the empty store and all five collections were written
C16_Witness ==
  /\ op = "reconcile" /\ payload = PEndToEnd /\ pre = EmptyStore
  /\ writes = PhaseOrder
  /\ Len(HistoryOf(localStorage, Str(S_T1))) = 1

\* the last reconciliation appended a record for this id to a list, whether
\* or not a later phase ended it with an exception
Created(before, after, id) ==
  /\ op = "reconcile" /\ Truthy(id)
  /\ FindIndex(before, K_id, id) = 0
  /\ Len(after) = Len(before) + 1

\* the last reconciliation appended the link of the payload's pair
LinkCreated ==
  /\ op = "reconcile" /\ Truthy(PayloadAssetId) /\ Truthy(PayloadTrackerId)
  /\ ~HasLink(pre, PayloadAssetId, PayloadTrackerId)
  /\ HasLink(localStorage, PayloadAssetId, PayloadTrackerId)

\* C17: creation defaults. A created asset has description and baseLocation
\* empty, type Movable and, without a status in the payload, status Active; a
\* created tracker has model empty and, without the field in the payload,
\* batteryLevel 0 and status Active; a created link has status Active when the
\* payload has no tracking status.
C17_CreationDefaults ==
  /\ Created(AssetsOf(pre), AssetsOf(localStorage), PayloadAssetId) =>
       LET new == AssetsOf(localStorage)[Len(AssetsOf(localStorage))]
       IN /\ Prop(new, K_description) = Str(<<>>)
          /\ Prop(new, K_type) = Str(S_Movable)
          /\ Prop(new, K_baseLocation) = Str(<<>>)
          /\ Nullish(PayloadAsset.status) => Prop(new, K_status) = Str(S_Active)
  /\ Created(TrackersOf(pre), TrackersOf(localStorage), PayloadTrackerId) =>
       LET new == TrackersOf(localStorage)[Len(TrackersOf(localStorage))]
       IN /\ Prop(new, K_model) = Str(<<>>)
          /\ Nullish(PayloadTracker.battery) => Prop(new, K_batteryLevel) = Whole(0)
          /\ Nullish(PayloadTracker.status) => Prop(new, K_status) = Str(S_Active)
  /\ (LinkCreated /\ Nullish(PayloadTrack.trackingStatus)) =>
       LET new == LinksOf(localStorage)[Len(LinksOf(localStorage))]
       IN Prop(new, K_status) = Str(S_Active)

\* a payload with ids and coordinates only created an asset, a tracker and
\* their link
C17_Witness ==
  /\ Created(AssetsOf(pre), AssetsOf(localStorage), PayloadAssetId)
  /\ Created(TrackersOf(pre), TrackersOf(localStorage), PayloadTrackerId)
  /\ LinkCreated
  /\ Nullish(PayloadAsset.status) /\ Nullish(PayloadTracker.battery)
  /\ Nullish(PayloadTracker.status) /\ Nullish(PayloadTrack.trackingStatus)
  /\ Prop(TrackersOf(localStorage)[Len(TrackersOf(localStorage))], K_batteryLevel) = Whole(0)

\* the index of the link of a pair in a link list, 0 when there is none
LinkIndex(links, aid, tid) ==
  LET hits == {i \in 1..Len(links) :
                 Prop(links[i], K_assetId) = aid /\ Prop(links[i], K_trackerId) = tid}
  IN IF hits = {} THEN 0 ELSE Min(hits)

\* the last reconciliation had a payload whose pair has a stored link
Resubmitted ==
  /\ op = "reconcile" /\ Truthy(PayloadAssetId) /\ Truthy(PayloadTrackerId)
  /\ HasLink(pre, PayloadAssetId, PayloadTrackerId)

\* C18: link re-submission updates in place. Reconciling a pair that already
\* has a link leaves the number of links as it is; the link's status becomes
\* the payload's tracking status when it has one (a non-empty one) and stays
\* otherwise.
C18_LinkUpdatedInPlace ==
  Resubmitted =>
    LET old == LinksOf(pre)[LinkIndex(LinksOf(pre), PayloadAssetId, PayloadTrackerId)]
        idx == LinkIndex(LinksOf(localStorage), PayloadAssetId, PayloadTrackerId)
    IN /\ Len(LinksOf(localStorage)) = Len(LinksOf(pre))
       /\ idx > 0
       /\ Prop(LinksOf(localStorage)[idx], K_status) =
            IF Truthy(PayloadTrack.trackingStatus) THEN PayloadTrack.trackingStatus
            ELSE Prop(old, K_status)

\* C19: link status domain. Starting from an empty store, the status of every
\* stored link is Active or Inactive.
C19_LinkStatusDomain ==
  \A i \in 1..Len(LinksOf(localStorage)) :
    OptProp(LinksOf(localStorage)[i], K_status) \in {Str(S_Active), Str(S_Inactive)}

\* a text in upper case
toUpperCase(s) ==
  [i \in 1..Len(s) |->
     IF \E j \in 1..Len(LowerLetters) : LowerLetters[j] = s[i]
     THEN UpperLetters[CHOOSE j \in 1..Len(LowerLetters) : LowerLetters[j] = s[i]]
     ELSE s[i]]

\* an object with the letter case of one key changed
RecasedKeys(obj) ==
  UNION {{Obj([obj.e EXCEPT ![i] = <<toUpperCase(obj.e[i][1]), obj.e[i][2]>>]),
          Obj([obj.e EXCEPT ![i] = <<toLowerCase(obj.e[i][1]), obj.e[i][2]>>])} :
           i \in 1..Len(obj.e)}

\* a payload with the letter case of one key changed, at the top level
RecasedTop(p) == IF p.t = "object" THEN RecasedKeys(p) ELSE {}

\* the same inside the nested asset or tracker object
RecasedNested(p) ==
  IF p.t # "object" THEN {}
  ELSE UNION {{Obj([p.e EXCEPT ![i] = <<p.e[i][1], inner>>]) : inner \in RecasedKeys(p.e[i][2])} :
                i \in {j \in 1..Len(p.e) :
                         /\ toLowerCase(p.e[j][1]) \in {K_asset, K_tracker}
                         /\ p.e[j][2].t = "object"}}

\* C20: case-insensitive field resolution. Changing only the letter case of a
\* key under which an asset, tracker or tracking field is supplied, at the top
\* level or inside the nested asset or tracker object, does not change the
\* store that results from reconciling the payload.
C20_CaseInsensitive ==
  op = "reconcile" =>
    \A q \in RecasedTop(Unwrap(payload)) \cup RecasedNested(Unwrap(payload)) :
      processTrackingWebhook(pre, preProto, q, {}, now).ls = localStorage

\* ------------------------------------------------------------------------
\* Identity of the stored records
\* ------------------------------------------------------------------------
\* the id of a stored record is a string with at least one character
HasId(rec) == rec.t = "object" /\ OptProp(rec, K_id).t = "string" /\ OptProp(rec, K_id).s # <<>>

\* C21: starting from an empty store, every stored asset and every stored
\* tracker has a non-empty id: a payload identified only by a name that
\* slugifies to the empty string creates no record
C21_NoPlaceholderEntities ==
  /\ \A i \in 1..Len(AssetsOf(localStorage)) : HasId(AssetsOf(localStorage)[i])
  /\ \A i \in 1..Len(TrackersOf(localStorage)) : HasId(TrackersOf(localStorage)[i])

\* ------------------------------------------------------------------------
\* Order and independence of the writes
\* ------------------------------------------------------------------------
\* the place of a key in the order of the phases
PhaseIndex(k) == CHOOSE i \in 1..5 : PhaseOrder[i] = k

\* what the last reconciliation writes under key k when it finds nothing under
\* any other key: the write of a phase from its own collection alone
WrittenAlone(k) ==
  processTrackingWebhook([j \in LSKeys |-> IF j = k THEN PreAsRead[k] ELSE NoItem],
                         preProto, payload, {}, now).ls[k]

\* C22: the writes of one reconciliation come in the order asset list, tracker
\* list, link list, position map, history map, and each write stands on its
\* own: a collection that was written keeps what its phase wrote, whatever a
\* later phase did (skipped, or ended by an exception), and a collection that
\* was not written is as before.
C22_PhaseOrderIndependentWrites ==
  op = "reconcile" =>
    /\ \A i, j \in 1..Len(writes) :
         i < j => PhaseIndex(writes[i]) < PhaseIndex(writes[j])
    /\ \A k \in LSKeys :
         localStorage[k] =
           IF k \in Range(writes) /\ SetFails(k) \notin faults THEN WrittenAlone(k)
           ELSE pre[k]

\* the asset list was written and kept its new content although the tracker
\* phase ended the reconciliation with an exception
C22_Witness ==
  /\ op = "reconcile"
  /\ thrown
  /\ writes = <<LS_ASSETS>>
  /\ localStorage[LS_ASSETS] # pre[LS_ASSETS]

\* no two records of the list have the same id
UniqueIds(list) ==
  \A i, j \in 1..Len(list) : i # j => OptProp(list[i], K_id) # OptProp(list[j], K_id)

\* C24: starting from an empty store, no two stored assets have the same id and
\* no two stored trackers have the same id: a payload that resolves to a stored
\* id replaces that record.
C24_IdentityUniqueness ==
  UniqueIds(AssetsOf(localStorage)) /\ UniqueIds(TrackersOf(localStorage))

\* the payload resolved to the ids of a stored asset and a stored tracker and
\* both lists kept their length
C24_Witness ==
  /\ op = "reconcile"
  /\ FindIndex(AssetsOf(pre), K_id, PayloadAssetId) > 0
  /\ FindIndex(TrackersOf(pre), K_id, PayloadTrackerId) > 0
  /\ Len(AssetsOf(localStorage)) = Len(AssetsOf(pre))
  /\ Len(TrackersOf(localStorage)) = Len(TrackersOf(pre))
  /\ Len(AssetsOf(pre)) > 1

\* the ids of the stored records of a list
IdsOf(list) == {OptProp(list[i], K_id) : i \in 1..Len(list)}

\* the keys of a stored map
MapKeys(key) ==
  IF localStorage[key].t = "object" THEN {Str(k) : k \in Keys(localStorage[key])} ELSE {}

\* C25: starting from an empty store and with no store failure, every link
\* joins a stored asset and a stored tracker, and every key of the position
\* map and of the history map is the id of a stored tracker.
C25_ReferentialIntegrity ==
  /\ \A i \in 1..Len(LinksOf(localStorage)) :
       /\ OptProp(LinksOf(localStorage)[i], K_assetId) \in IdsOf(AssetsOf(localStorage))
       /\ OptProp(LinksOf(localStorage)[i], K_trackerId) \in IdsOf(TrackersOf(localStorage))
  /\ MapKeys(LS_TRACKER_POS) \subseteq IdsOf(TrackersOf(localStorage))
  /\ MapKeys(LS_TRACKING_LOGS) \subseteq IdsOf(TrackersOf(localStorage))

\* a link, a position and a history are stored along with several assets and
\* trackers
C25_Witness ==
  /\ Len(LinksOf(localStorage)) > 0
  /\ MapKeys(LS_TRACKER_POS) # {}
  /\ MapKeys(LS_TRACKING_LOGS) # {}
  /\ Len(AssetsOf(localStorage)) > 1
  /\ Len(TrackersOf(localStorage)) > 1

\* ------------------------------------------------------------------------
\* Frame of a reconciliation
\* ------------------------------------------------------------------------
\* every record of the list before is still at its place with its id, and is
\* unchanged unless its id is the one the payload resolved to
ListFrame(before, after, id) ==
  /\ Len(after) >= Len(before)
  /\ \A i \in 1..Len(before) :
       /\ OptProp(after[i], K_id) = OptProp(before[i], K_id)
       /\ OptProp(before[i], K_id) # id => after[i] = before[i]

\* the links of the trackers other than tid, in stored order
OtherLinks(ls, tid) == SelectSeq(LinksOf(ls), LAMBDA l : OptProp(l, K_trackerId) # tid)

\* the entries of a stored map under the keys other than tid
OtherEntries(ls, key, tid) ==
  SelectSeq(StoredMap(ls, key).e, LAMBDA e : Str(e[1]) # tid)

\* C26: a reconciliation that resolves to asset a and tracker t never removes
\* an asset or a tracker, never changes an asset other than a or a tracker
\* other than t, never removes or changes a link of another tracker, and never
\* changes the position or the history of another tracker.
C26_Frame ==
  op = "reconcile" =>
    /\ ListFrame(AssetsOf(pre), AssetsOf(localStorage), PayloadAssetId)
    /\ ListFrame(TrackersOf(pre), TrackersOf(localStorage), PayloadTrackerId)
    /\ OtherLinks(localStorage, PayloadTrackerId) = OtherLinks(pre, PayloadTrackerId)
    /\ OtherEntries(localStorage, LS_TRACKER_POS, PayloadTrackerId)
         = OtherEntries(pre, LS_TRACKER_POS, PayloadTrackerId)
    /\ OtherEntries(localStorage, LS_TRACKING_LOGS, PayloadTrackerId)
         = OtherEntries(pre, LS_TRACKING_LOGS, PayloadTrackerId)

\* ------------------------------------------------------------------------
\* Current position and history
\* ------------------------------------------------------------------------
\* C27: after every reconciliation each tracker with a non-empty history has a
\* current position, and that position (lat, lng and receivedAt) is the last
\* entry of the tracker's history, whatever the payload's timestamp is and
\* also when the clock advances during the reconciliation.
C27_PositionMatchesLog ==
  \A tid \in MapKeys(LS_TRACKING_LOGS) :
    HistoryOf(localStorage, tid) # <<>> =>
      PositionOf(localStorage, tid) = HistoryOf(localStorage, tid)[Len(HistoryOf(localStorage, tid))]

\* ------------------------------------------------------------------------
\* LiveMap polling
\* ------------------------------------------------------------------------
\* C23: within one listening session, which is one run of the polling effect,
\* the next poll is scheduled only in the finally block of the previous one: a
\* session never has two polls under way nor a timer pending beside a poll,
\* and every fetch of it but the latest has been processed to the end before
\* its next fetch started.  This holds while polls of other sessions, started
\* by an edit of the address or by Stop and Listen, and Fetch once requests
\* are under way.
C23_PollerSerialization ==
  \A s \in Sessions :
    /\ fetching[s] + parsing[s] + timers[s] <= 1
    /\ fetches[s] <= finished[s] + 1

\* a session is in its second fetch after its first response was recorded
\* with its position, while a poll of another session is under way
C23_Witness ==
  \E s, o \in Sessions :
    /\ s # o
    /\ fetches[s] = 2
    /\ fetching[s] = 1
    /\ finished[s] = 1
    /\ fetching[o] + parsing[o] = 1
    /\ events # <<>>
    /\ localStorage[TRACKER_POS_STORAGE] # NoItem

\* C30: once a listening session is stopped it starts no further fetch and
\* records no further event or tracker position, also when a poll is in
\* flight or a timer is pending at the moment of the stop.
C30_StopEndsPolling == \A s \in Sessions : late[s] = {}

\* ------------------------------------------------------------------------
\* DeviceConfig and the reconciler on one store
\* ------------------------------------------------------------------------
\* the (assetId, trackerId) pairs of the stored links
PairsOf(list) ==
  {<<OptProp(list[i], K_assetId), OptProp(list[i], K_trackerId)>> : i \in 1..Len(list)}

\* C28: a write of DeviceConfig after it loaded its lists discards nothing
\* from the store.  After the load the store is written by the reconciler and
\* by DeviceConfig alone, so every asset, tracker and link that a
\* reconciliation stored since then is still stored after DeviceConfig
\* persists; Remove tracking takes links away on purpose.
C28_NoLostUpdate ==
  op \in ConfigRenders =>
    /\ IdsOf(AssetsOf(pre)) \subseteq IdsOf(AssetsOf(localStorage))
    /\ IdsOf(TrackersOf(pre)) \subseteq IdsOf(TrackersOf(localStorage))
    /\ op # "removeTracking" => PairsOf(LinksOf(pre)) \subseteq PairsOf(LinksOf(localStorage))

\* C29: the tracker list held by DeviceConfig never has two trackers with the
\* same id, also when a second submission with the same id is made while the
\* API call of the first is pending.
C29_UniqueTrackerIds == UniqueIds(stateTrackers)
====
